---- MODULE Spec2Model ----
(***************************************************************************)
(* Model of the bitboard chess engine of index.mjs (class BitboardChess). *)
(* A bitboard (a BigInt used as a 64-bit mask) is modelled as the set of  *)
(* the indices of its one bits: a & b is intersection, a | b union,       *)
(* a ^ b symmetric difference, a & ~b set difference.  Strings (SAN text, *)
(* the castling field, FEN) are sequences of one-character strings.       *)
(***************************************************************************)
EXTENDS Integers, Sequences, FiniteSets, TLC

VARIABLES engine, last, plies, native

vars == <<engine, last, plies, native>>

WHITE == 0
BLACK == 1

\* Bounds of the model: the number of calls made after construction, in the
\* specifications of one kind of call (MaxPlies) and in the mixed one.
MaxPlies == 3

MaxMixedPlies == 2

\* The number of calls in a run that imports positions.
MaxFenPlies == 3

\* Calls made on each of the two engines side by side.
MaxBothPlies == 2

\* The calls made in the run of a fixed line of play.
MaxGamePlies == 4
Squares == 0..63

\* bit(sq) = 1n << BigInt(sq); a negative shift count shifts right, giving 0n.
bit(sq) == IF sq >= 0 THEN {sq} ELSE {}

Xor(a, b) == (a \ b) \cup (b \ a)

Abs(x) == IF x < 0 THEN -x ELSE x

inBoard(f, r) == f >= 0 /\ f < 8 /\ r >= 0 /\ r < 8

knightDeltas ==
  { <<1, 2>>, <<2, 1>>, <<2, -1>>, <<1, -2>>,
    <<-1, -2>>, <<-2, -1>>, <<-2, 1>>, <<-1, 2>> }

kingDeltas ==
  { <<1, 0>>, <<1, 1>>, <<0, 1>>, <<-1, 1>>,
    <<-1, 0>>, <<-1, -1>>, <<0, -1>>, <<1, -1>> }

\* The table entry initAttackTables builds for one square from a delta list.
deltaAttacks(sq, deltas) ==
  LET f == sq % 8
      r == sq \div 8
  IN  { (r + d[2]) * 8 + (f + d[1]) : d \in { e \in deltas : inBoard(f + e[1], r + e[2]) } }

knightAttacks(sq) == deltaAttacks(sq, knightDeltas)

kingAttacks(sq) == deltaAttacks(sq, kingDeltas)

\* One ray of a sliding piece: squares are added in order until the board ends,
\* the first occupied square included (the loop breaks after adding it).
ray(sq, df, dr, occ) ==
  LET f == sq % 8
      r == sq \div 8
      at(d) == (r + d * dr) * 8 + (f + d * df)
  IN  { at(d) : d \in { e \in 1..7 :
                          /\ inBoard(f + e * df, r + e * dr)
                          /\ \A k \in 1..(e - 1) : at(k) \notin occ } }

\* Mutant of getRookAttacks: the ray towards the h-file runs through occupied
\* squares to the edge of the board.
getRookAttacksOpenEast(sq, occ) ==
  ray(sq, 1, 0, {}) \cup ray(sq, -1, 0, occ) \cup ray(sq, 0, 1, occ) \cup ray(sq, 0, -1, occ)
getRookAttacks(sq, occ) ==
  ray(sq, 1, 0, occ) \cup ray(sq, -1, 0, occ) \cup ray(sq, 0, 1, occ) \cup ray(sq, 0, -1, occ)

getBishopAttacks(sq, occ) ==
  ray(sq, 1, 1, occ) \cup ray(sq, -1, 1, occ) \cup ray(sq, 1, -1, occ) \cup ray(sq, -1, -1, occ)

pawnCaptureSources(toSq, color) ==
  LET f == toSq % 8
      r == toSq \div 8
  IN  IF color = WHITE
      THEN (IF r >= 1 /\ f >= 1 THEN bit((r - 1) * 8 + (f - 1)) ELSE {})
           \cup (IF r >= 1 /\ f < 7 THEN bit((r - 1) * 8 + (f + 1)) ELSE {})
      ELSE (IF r < 7 /\ f >= 1 THEN bit((r + 1) * 8 + (f - 1)) ELSE {})
           \cup (IF r < 7 /\ f < 7 THEN bit((r + 1) * 8 + (f + 1)) ELSE {})

(***************************************************************************)
(* The engine object.                                                      *)
(***************************************************************************)
both(w, b) == [c \in {WHITE, BLACK} |-> IF c = WHITE THEN w ELSE b]

\* An initial position with the kings and queens on each other's squares.
resetKingsOnQueenFile ==
  [ pawns      |-> both(8..15, 48..55),
    knights    |-> both({1, 6}, {57, 62}),
    bishops    |-> both({2, 5}, {58, 61}),
    rooks      |-> both({0, 7}, {56, 63}),
    queens     |-> both({4}, {60}),
    kings      |-> both({3}, {59}),
    sideToMove |-> WHITE,
    castling   |-> <<"K", "Q", "k", "q">>,
    enPassant  |-> -1,
    halfmove   |-> 0,
    fullmove   |-> 1 ]

\* reset() followed by _setInitialPosition(): the state after construction.
reset ==
  [ pawns      |-> both(8..15, 48..55),
    knights    |-> both({1, 6}, {57, 62}),
    bishops    |-> both({2, 5}, {58, 61}),
    rooks      |-> both({0, 7}, {56, 63}),
    queens     |-> both({3}, {59}),
    kings      |-> both({4}, {60}),
    sideToMove |-> WHITE,
    castling   |-> <<"K", "Q", "k", "q">>,
    enPassant  |-> -1,
    halfmove   |-> 0,
    fullmove   |-> 1 ]

occupancy(p, color) ==
  p.pawns[color] \cup p.knights[color] \cup p.bishops[color]
    \cup p.rooks[color] \cup p.queens[color] \cup p.kings[color]

allOcc(p) == occupancy(p, WHITE) \cup occupancy(p, BLACK)

\* Mutant of replaceAll: the letters are taken off "KQkq", not off the field.
replaceAllOfFull(str, chars) == SelectSeq(<<"K", "Q", "k", "q">>, LAMBDA c : c \notin chars)

\* String.prototype.replace(/K|Q/g, "") resp. (/k|q/g, ""): every occurrence goes.
replaceAll(str, chars) == SelectSeq(str, LAMBDA c : c \notin chars)

\* String.prototype.replace("Q", ""): only the first occurrence goes.
RECURSIVE replaceFirst(_, _)
replaceFirst(str, ch) ==
  IF str = <<>> THEN <<>>
  ELSE IF Head(str) = ch THEN Tail(str)
  ELSE <<Head(str)>> \o replaceFirst(Tail(str), ch)

ownRights(side) == IF side = WHITE THEN {"K", "Q"} ELSE {"k", "q"}

\* Mutant of finishMove: the fullmove counter grows on every call.
finishMoveAlwaysCounts(p) ==
  [p EXCEPT !.sideToMove = 1 - p.sideToMove, !.fullmove = @ + 1]

\* Mutant of finishMove: the halfmove clock grows on every call.
finishMoveCountsHalfmove(p) ==
  LET q == [p EXCEPT !.sideToMove = 1 - p.sideToMove, !.halfmove = @ + 1]
  IN  IF q.sideToMove = WHITE THEN [q EXCEPT !.fullmove = @ + 1] ELSE q
finishMove(p) ==
  LET q == [p EXCEPT !.sideToMove = 1 - p.sideToMove]
  IN  IF q.sideToMove = WHITE THEN [q EXCEPT !.fullmove = @ + 1] ELSE q

\* Mutant of castleMove: the queen-side rook goes to the c-file.
castleMoveRookToC(p, move) ==
  LET side == p.sideToMove
      kingBB == bit(move.from) \cup bit(move.to)
      rookBB == IF move.castle = "K"
                THEN (IF side = WHITE THEN {7, 5} ELSE {63, 61})
                ELSE (IF side = WHITE THEN {0, 2} ELSE {56, 58})
  IN  finishMove([p EXCEPT !.kings[side] = Xor(@, kingBB),
                           !.rooks[side] = Xor(@, rookBB),
                           !.castling = replaceAll(@, ownRights(side))])

\* Branch 1 of makeMove: the castle.
castleMove(p, move) ==
  LET side == p.sideToMove
      kingBB == bit(move.from) \cup bit(move.to)
      rookBB == IF move.castle = "K"
                THEN (IF side = WHITE THEN {7, 5} ELSE {63, 61})
                ELSE (IF side = WHITE THEN {0, 3} ELSE {56, 59})
  IN  finishMove([p EXCEPT !.kings[side] = Xor(@, kingBB),
                           !.rooks[side] = Xor(@, rookBB),
                           !.castling = replaceAll(@, ownRights(side))])

\* Mutant of removeCaptured: the en-passant flag is not looked at.
removeCapturedDestinationOnly(p, move) ==
  LET enemy == 1 - p.sideToMove
      toBB == bit(move.to)
  IN  [p EXCEPT !.pawns[enemy] = @ \ toBB,
                !.knights[enemy] = @ \ toBB,
                !.bishops[enemy] = @ \ toBB,
                !.rooks[enemy] = @ \ toBB,
                !.queens[enemy] = @ \ toBB,
                !.kings[enemy] = @ \ toBB]

\* Mutant of removeCaptured: the destination is not cleared of enemy pieces.
removeCapturedEnPassantOnly(p, move) ==
  LET side == p.sideToMove
      enemy == 1 - side
      capBB == IF move.enpassant
               THEN bit(IF side = WHITE THEN move.to - 8 ELSE move.to + 8)
               ELSE {}
  IN  [p EXCEPT !.pawns[enemy] = @ \ capBB]

\* Mutant of removeCaptured: the destination is cleared from the enemy pawns only.
removeCapturedPawnsOnly(p, move) ==
  LET side == p.sideToMove
      enemy == 1 - side
      toBB == bit(move.to)
      capBB == IF move.enpassant
               THEN bit(IF side = WHITE THEN move.to - 8 ELSE move.to + 8)
               ELSE {}
  IN  [p EXCEPT !.pawns[enemy] = (@ \ capBB) \ toBB]
\* Steps 2 and 3: the en-passant capture, then the destination is cleared from
\* all six enemy piece-sets.
removeCaptured(p, move) ==
  LET side == p.sideToMove
      enemy == 1 - side
      toBB == bit(move.to)
      capBB == IF move.enpassant
               THEN bit(IF side = WHITE THEN move.to - 8 ELSE move.to + 8)
               ELSE {}
  IN  [p EXCEPT !.pawns[enemy] = (@ \ capBB) \ toBB,
                !.knights[enemy] = @ \ toBB,
                !.bishops[enemy] = @ \ toBB,
                !.rooks[enemy] = @ \ toBB,
                !.queens[enemy] = @ \ toBB,
                !.kings[enemy] = @ \ toBB]

\* The kind of the mover's piece movePiece relocates: the first of pawns,
\* knights, bishops, rooks, queens, kings that holds the origin ("" when none).
movedKind(p, move) ==
  LET side == p.sideToMove
      fromBB == bit(move.from)
  IN  IF p.pawns[side] \cap fromBB # {} THEN "pawns"
      ELSE IF p.knights[side] \cap fromBB # {} THEN "knights"
      ELSE IF p.bishops[side] \cap fromBB # {} THEN "bishops"
      ELSE IF p.rooks[side] \cap fromBB # {} THEN "rooks"
      ELSE IF p.queens[side] \cap fromBB # {} THEN "queens"
      ELSE IF p.kings[side] \cap fromBB # {} THEN "kings"
      ELSE ""

\* Mutant of movePiece: the piece is put on the destination and stays on its origin.
movePieceKeepsOrigin(p, move) ==
  LET side == p.sideToMove
      kind == movedKind(p, move)
  IN  IF kind = "" THEN p
      ELSE [p EXCEPT ![kind][side] = @ \cup bit(move.to)]
\* Step 4: arr[side] ^= fromBB; arr[side] |= toBB on the first set holding the origin.
movePiece(p, move) ==
  LET side == p.sideToMove
      kind == movedKind(p, move)
      fromBB == bit(move.from)
      toBB == bit(move.to)
  IN  IF kind = "" THEN p
      ELSE [p EXCEPT ![kind][side] = Xor(@, fromBB) \cup toBB]

\* Step 5: promotion.
promotionTarget(promotion) ==
  IF promotion = "q" THEN "queens"
  ELSE IF promotion = "r" THEN "rooks"
  ELSE IF promotion = "b" THEN "bishops"
  ELSE "knights"

\* A promotion that adds the new piece and keeps the pawn on the square.
promoteKeepsPawn(p, move) ==
  IF move.promotion # ""
  THEN [p EXCEPT ![promotionTarget(move.promotion)][p.sideToMove] = @ \cup bit(move.to)]
  ELSE p

promote(p, move) ==
  LET side == p.sideToMove
      toBB == bit(move.to)
  IN  IF move.promotion # ""
      THEN LET q == [p EXCEPT !.pawns[side] = @ \ toBB]
           IN  [q EXCEPT ![promotionTarget(move.promotion)][side] = @ \cup toBB]
      ELSE p

\* Step 6: the en-passant square.
updateEnPassant(p, move, movedPawn) ==
  IF movedPawn /\ Abs(move.to - move.from) = 16
  THEN [p EXCEPT !.enPassant = (move.from + move.to) \div 2]
  ELSE [p EXCEPT !.enPassant = -1]

\* The test of step 7, "fromBB & this.kings[side]", read after step 4 has run.
kingOnOrigin(p, move) == bit(move.from) \cap p.kings[p.sideToMove] # {}

\* Mutant of updateCastling: the letters of a1 and h1, and of a8 and h8, are swapped.
updateCastlingSwapped(p, move, movedRook) ==
  LET side == p.sideToMove
      c0 == IF kingOnOrigin(p, move)
            THEN replaceAll(p.castling, ownRights(side))
            ELSE p.castling
      c1 == IF movedRook /\ move.from = 0 THEN replaceFirst(c0, "K") ELSE c0
      c2 == IF movedRook /\ move.from = 7 THEN replaceFirst(c1, "Q") ELSE c1
      c3 == IF movedRook /\ move.from = 56 THEN replaceFirst(c2, "k") ELSE c2
      c4 == IF movedRook /\ move.from = 63 THEN replaceFirst(c3, "q") ELSE c3
  IN  [p EXCEPT !.castling = c4]

\* Step 7: castling rights after a king or rook move.
updateCastling(p, move, movedRook) ==
  LET side == p.sideToMove
      c0 == IF kingOnOrigin(p, move)
            THEN replaceAll(p.castling, ownRights(side))
            ELSE p.castling
      c1 == IF movedRook /\ move.from = 0 THEN replaceFirst(c0, "Q") ELSE c0
      c2 == IF movedRook /\ move.from = 7 THEN replaceFirst(c1, "K") ELSE c1
      c3 == IF movedRook /\ move.from = 56 THEN replaceFirst(c2, "q") ELSE c2
      c4 == IF movedRook /\ move.from = 63 THEN replaceFirst(c3, "k") ELSE c3
  IN  [p EXCEPT !.castling = c4]

makeMove(p, move) ==
  IF move.castle # ""
  THEN castleMove(p, move)
  ELSE LET side == p.sideToMove
           p3 == removeCaptured(p, move)
           movedRook == p3.rooks[side] \cap bit(move.from) # {}
           movedPawn == movedKind(p3, move) = "pawns"
           p4 == movePiece(p3, move)
           p5 == promote(p4, move)
           p6 == updateEnPassant(p5, move, movedPawn)
           p7 == updateCastling(p6, move, movedRook)
       IN  finishMove(p7)

(***************************************************************************)
(* Characters.                                                             *)
(***************************************************************************)
FileChars == <<"a", "b", "c", "d", "e", "f", "g", "h">>

DigitChars == <<"0", "1", "2", "3", "4", "5", "6", "7", "8", "9">>

\* The index of ch in chars, counted from 0; -1 when ch is not in chars.
indexOf(chars, ch) ==
  IF \E i \in 1..Len(chars) : chars[i] = ch
  THEN (CHOOSE i \in 1..Len(chars) : chars[i] = ch) - 1
  ELSE -1

FileTable == [c \in { FileChars[i] : i \in 1..8 } |-> indexOf(FileChars, c)]

DigitTable == [c \in { DigitChars[i] : i \in 1..10 } |-> indexOf(DigitChars, c)]

\* ch.charCodeAt(0) - 97 for the letters a..h; any other character gives a value
\* outside 0..7, modelled as -1.
fileIndex(ch) == IF ch \in DOMAIN FileTable THEN FileTable[ch] ELSE -1

\* parseInt(ch, 10) of one character: its value, or -1 for NaN.
digitValue(ch) == IF ch \in DOMAIN DigitTable THEN DigitTable[ch] ELSE -1

\* ch >= '1' && ch <= '8'
isRankChar(ch) == digitValue(ch) \in 1..8

\* ch >= 'a' && ch <= 'h'
isFileChar(ch) == fileIndex(ch) \in 0..7

isDigit(ch) == digitValue(ch) \in 0..9

\* Number-to-string conversion of "fen += n" for n >= 0.
RECURSIVE numberToString(_)
numberToString(n) ==
  IF n < 10 THEN <<DigitChars[n + 1]>>
  ELSE numberToString(n \div 10) \o <<DigitChars[(n % 10) + 1]>>

\* The value of the longest prefix of decimal digits of str, read left to right.
RECURSIVE digitsValue(_, _)
digitsValue(str, acc) ==
  IF str = <<>> \/ ~isDigit(Head(str)) THEN acc
  ELSE digitsValue(Tail(str), acc * 10 + digitValue(Head(str)))

\* parseInt(str, 10) || dflt: NaN (no leading digit, or no string) and 0 both
\* give dflt.
parseIntOr(str, dflt) ==
  IF str = <<>> \/ ~isDigit(Head(str)) THEN dflt
  ELSE LET v == digitsValue(str, 0) IN IF v = 0 THEN dflt ELSE v

\* String.prototype.trim for the blank.
RECURSIVE trimLeft(_)
trimLeft(str) ==
  IF str # <<>> /\ Head(str) = " " THEN trimLeft(Tail(str)) ELSE str

RECURSIVE trimRight(_)
trimRight(str) ==
  IF str # <<>> /\ str[Len(str)] = " " THEN trimRight(SubSeq(str, 1, Len(str) - 1)) ELSE str

trim(str) == trimRight(trimLeft(str))

\* str.split(sep) for a one-character separator: the pieces between separators.
RECURSIVE splitOn(_, _, _, _)
splitOn(str, sep, cur, acc) ==
  IF str = <<>> THEN Append(acc, cur)
  ELSE IF Head(str) = sep THEN splitOn(Tail(str), sep, <<>>, Append(acc, cur))
  ELSE splitOn(Tail(str), sep, Append(cur, Head(str)), acc)

\* str.split(/\s+/) on a trimmed string: runs of blanks separate the tokens.
splitBlanks(str) == SelectSeq(splitOn(str, " ", <<>>, <<>>), LAMBDA t : t # <<>>)

(***************************************************************************)
(* FEN export.                                                             *)
(***************************************************************************)
\* Mutant of fenPiece: the white sets are all looked at before the black ones.
fenPieceColourMajor(p, sq) ==
  IF sq \in p.pawns[WHITE] THEN "P"
  ELSE IF sq \in p.knights[WHITE] THEN "N"
  ELSE IF sq \in p.bishops[WHITE] THEN "B"
  ELSE IF sq \in p.rooks[WHITE] THEN "R"
  ELSE IF sq \in p.queens[WHITE] THEN "Q"
  ELSE IF sq \in p.kings[WHITE] THEN "K"
  ELSE IF sq \in p.pawns[BLACK] THEN "p"
  ELSE IF sq \in p.knights[BLACK] THEN "n"
  ELSE IF sq \in p.bishops[BLACK] THEN "b"
  ELSE IF sq \in p.rooks[BLACK] THEN "r"
  ELSE IF sq \in p.queens[BLACK] THEN "q"
  ELSE IF sq \in p.kings[BLACK] THEN "k"
  ELSE ""

\* The letter toFEN finds for a square: check(pawns) || check(knights) || ...,
\* each check looking at the white set and then at the black set.
fenPiece(p, sq) ==
  IF sq \in p.pawns[WHITE] THEN "P"
  ELSE IF sq \in p.pawns[BLACK] THEN "p"
  ELSE IF sq \in p.knights[WHITE] THEN "N"
  ELSE IF sq \in p.knights[BLACK] THEN "n"
  ELSE IF sq \in p.bishops[WHITE] THEN "B"
  ELSE IF sq \in p.bishops[BLACK] THEN "b"
  ELSE IF sq \in p.rooks[WHITE] THEN "R"
  ELSE IF sq \in p.rooks[BLACK] THEN "r"
  ELSE IF sq \in p.queens[WHITE] THEN "Q"
  ELSE IF sq \in p.queens[BLACK] THEN "q"
  ELSE IF sq \in p.kings[WHITE] THEN "K"
  ELSE IF sq \in p.kings[BLACK] THEN "k"
  ELSE ""

\* The inner loop of toFEN over the files f..7 of rank r.  occ is allOcc(p):
\* a square outside it is in no piece-set and every check gives null there.
RECURSIVE fenRank(_, _, _, _, _)
fenRank(p, occ, r, f, empty) ==
  IF f = 8 THEN (IF empty > 0 THEN numberToString(empty) ELSE <<>>)
  ELSE LET piece == IF r * 8 + f \in occ THEN fenPiece(p, r * 8 + f) ELSE ""
       IN  IF piece = "" THEN fenRank(p, occ, r, f + 1, empty + 1)
           ELSE (IF empty > 0 THEN numberToString(empty) ELSE <<>>)
                  \o <<piece>> \o fenRank(p, occ, r, f + 1, 0)

\* The outer loop of toFEN over the ranks r..0.
RECURSIVE fenPlacement(_, _, _)
fenPlacement(p, occ, r) ==
  fenRank(p, occ, r, 0, 0)
    \o (IF r > 0 THEN <<"/">> \o fenPlacement(p, occ, r - 1) ELSE <<>>)

fenEnPassant(p) ==
  IF p.enPassant = -1 THEN <<"-">>
  ELSE <<FileChars[(p.enPassant % 8) + 1]>> \o numberToString((p.enPassant \div 8) + 1)

\* An export that writes the castling letters held in the order K, Q, k, q.
toFENCastlingSorted(p) ==
  LET held == SelectSeq(<<"K", "Q", "k", "q">>,
                        LAMBDA c : \E i \in 1..Len(p.castling) : p.castling[i] = c)
  IN  fenPlacement(p, allOcc(p), 7)
        \o <<" ">> \o (IF p.sideToMove = WHITE THEN <<"w">> ELSE <<"b">>)
        \o <<" ">> \o (IF held # <<>> THEN held ELSE <<"-">>)
        \o <<" ">> \o fenEnPassant(p)
        \o <<" ">> \o numberToString(p.halfmove)
        \o <<" ">> \o numberToString(p.fullmove)

toFEN(p) ==
  fenPlacement(p, allOcc(p), 7)
    \o <<" ">> \o (IF p.sideToMove = WHITE THEN <<"w">> ELSE <<"b">>)
    \o <<" ">> \o (IF p.castling # <<>> THEN p.castling ELSE <<"-">>)
    \o <<" ">> \o fenEnPassant(p)
    \o <<" ">> \o numberToString(p.halfmove)
    \o <<" ">> \o numberToString(p.fullmove)

(***************************************************************************)
(* FEN import.                                                             *)
(***************************************************************************)
\* The loop of loadFromFEN over the characters of one rank string: the pairs
\* <<character, square>> it reaches with f < 8, digits 1..8 advancing f.
RECURSIVE loadRank(_, _, _)
loadRank(rankStr, r, f) ==
  IF rankStr = <<>> \/ f >= 8 THEN {}
  ELSE LET ch == Head(rankStr)
       IN  IF isRankChar(ch)
           THEN loadRank(Tail(rankStr), r, f + digitValue(ch))
           ELSE {<<ch, r * 8 + f>>} \cup loadRank(Tail(rankStr), r, f + 1)

\* The loop of loadFromFEN over r = 0..7, reading ranks[7 - r].
loadRanks(ranks) == UNION { loadRank(ranks[8 - r], r, 0) : r \in 0..7 }

\* The bits the if/else chain of loadFromFEN sets in the piece-set of letter ch.
placed(placements, ch) == UNION { bit(pl[2]) : pl \in { x \in placements : x[1] = ch } }

\* An import that adds the pieces of the text to the piece-sets it finds.
loadPlacementMerging(p, ranks) ==
  LET pl == loadRanks(ranks)
  IN  [p EXCEPT !.pawns = both(@[WHITE] \cup placed(pl, "P"), @[BLACK] \cup placed(pl, "p")),
                !.knights = both(@[WHITE] \cup placed(pl, "N"), @[BLACK] \cup placed(pl, "n")),
                !.bishops = both(@[WHITE] \cup placed(pl, "B"), @[BLACK] \cup placed(pl, "b")),
                !.rooks = both(@[WHITE] \cup placed(pl, "R"), @[BLACK] \cup placed(pl, "r")),
                !.queens = both(@[WHITE] \cup placed(pl, "Q"), @[BLACK] \cup placed(pl, "q")),
                !.kings = both(@[WHITE] \cup placed(pl, "K"), @[BLACK] \cup placed(pl, "k"))]

\* The twelve piece-sets loadFromFEN builds, starting from 0n each.
loadPlacement(p, ranks) ==
  LET pl == loadRanks(ranks)
  IN  [p EXCEPT !.pawns = both(placed(pl, "P"), placed(pl, "p")),
                !.knights = both(placed(pl, "N"), placed(pl, "n")),
                !.bishops = both(placed(pl, "B"), placed(pl, "b")),
                !.rooks = both(placed(pl, "R"), placed(pl, "r")),
                !.queens = both(placed(pl, "Q"), placed(pl, "q")),
                !.kings = both(placed(pl, "K"), placed(pl, "k"))]

\* The en-passant field of a FEN: a square index, or -1.
loadEnPassant(tokens) ==
  IF Len(tokens) >= 4 /\ tokens[4] # <<"-">>
  THEN LET ep == tokens[4]
           file == fileIndex(ep[1])
           rank == IF Len(ep) >= 2 /\ isDigit(ep[2]) THEN digitValue(ep[2]) - 1 ELSE -1
       IN  IF file >= 0 /\ file < 8 /\ rank >= 0 /\ rank < 8 THEN rank * 8 + file ELSE -1
  ELSE -1

loadFromFEN(p, fen) ==
  LET tokens == splitBlanks(trim(fen))
      ranks == IF tokens = <<>> THEN <<>> ELSE splitOn(tokens[1], "/", <<>>, <<>>)
  IN  IF fen = <<>> \/ tokens = <<>> \/ Len(ranks) # 8 THEN p
      ELSE LET q == loadPlacement(p, ranks)
           IN  [q EXCEPT
                 !.sideToMove = IF Len(tokens) >= 2 /\ tokens[2] = <<"b">> THEN BLACK ELSE WHITE,
                 !.castling = IF Len(tokens) >= 3 /\ tokens[3] # <<"-">> THEN tokens[3] ELSE <<>>,
                 !.enPassant = loadEnPassant(tokens),
                 !.halfmove = IF Len(tokens) >= 5 THEN parseIntOr(tokens[5], 0) ELSE 0,
                 !.fullmove = IF Len(tokens) >= 6 THEN parseIntOr(tokens[6], 1) ELSE 1]

(***************************************************************************)
(* Zobrist key.  ZOBRIST_PIECES, ZOBRIST_SIDE, ZOBRIST_CASTLE and          *)
(* ZOBRIST_EP are consecutive outputs of one seeded generator; an entry is *)
(* named by its position in that stream.  A key, the XOR of table entries, *)
(* is modelled by the set of the entries XORed in an odd number of times:  *)
(* equal sets are equal 64-bit keys.                                       *)
(***************************************************************************)
zobristPieces(sq, pt) == sq * 12 + pt

zobristSide == 64 * 12

zobristCastle(i) == 64 * 12 + 1 + i

zobristEp(f) == 64 * 12 + 1 + 4 + f

\* The piece type getZobristKey finds for a square (wPt / bPt of the first
\* piece-set holding it, white set before black set), or -1 for a square in
\* no piece-set, which adds nothing to the key.
zobristPieceType(p, sq) ==
  IF sq \in p.pawns[WHITE] THEN 0
  ELSE IF sq \in p.pawns[BLACK] THEN 6
  ELSE IF sq \in p.knights[WHITE] THEN 1
  ELSE IF sq \in p.knights[BLACK] THEN 7
  ELSE IF sq \in p.bishops[WHITE] THEN 2
  ELSE IF sq \in p.bishops[BLACK] THEN 8
  ELSE IF sq \in p.rooks[WHITE] THEN 3
  ELSE IF sq \in p.rooks[BLACK] THEN 9
  ELSE IF sq \in p.queens[WHITE] THEN 4
  ELSE IF sq \in p.queens[BLACK] THEN 10
  ELSE IF sq \in p.kings[WHITE] THEN 5
  ELSE IF sq \in p.kings[BLACK] THEN 11
  ELSE -1

castlingIndex(c) == indexOf(<<"K", "Q", "k", "q">>, c)

\* Only the first castling letter enters the key.
xorCastlingFirstOnly(str, key) ==
  IF str = <<>> THEN key
  ELSE Xor(key, {zobristCastle(castlingIndex(Head(str)))})

\* for (const c of this.castling) key ^= ZOBRIST_CASTLE[castlingIndex[c]]
RECURSIVE xorCastling(_, _)
xorCastling(str, key) ==
  IF str = <<>> THEN key
  ELSE xorCastling(Tail(str), Xor(key, {zobristCastle(castlingIndex(Head(str)))}))

\* key ^= undefined, for a castling letter outside KQkq, throws: the outcome
\* is not a key, and is written as the set of an index outside the tables.
TypeError == {-1}

\* A key that leaves the side to move out.
getZobristKeyWithoutSide(p) ==
  LET pieces == { zobristPieces(sq, zobristPieceType(p, sq)) : sq \in allOcc(p) \cap Squares }
      k2 == xorCastling(p.castling, pieces)
  IN  IF p.enPassant >= 0 THEN Xor(k2, {zobristEp(p.enPassant % 8)}) ELSE k2

getZobristKey(p) ==
  IF \E i \in 1..Len(p.castling) : castlingIndex(p.castling[i]) < 0 THEN TypeError ELSE
  LET pieces == { zobristPieces(sq, zobristPieceType(p, sq)) : sq \in allOcc(p) \cap Squares }
      k1 == IF p.sideToMove = BLACK THEN Xor(pieces, {zobristSide}) ELSE pieces
      k2 == xorCastling(p.castling, k1)
  IN  IF p.enPassant >= 0 THEN Xor(k2, {zobristEp(p.enPassant % 8)}) ELSE k2

(***************************************************************************)
(* The values of the Zobrist tables.  A 32-bit word is the set of its bit  *)
(* positions 0..31 that are 1, a 64-bit key the set of its bit positions   *)
(* 0..63; ^ on words is Xor on these sets.                                 *)
(***************************************************************************)
bitAt(w, i) == IF i \in w THEN 1 ELSE 0

\* The j-th byte (j = 0 for the lowest) of a word, as a number.
byteOf(w, j) ==
  bitAt(w, 8 * j) + 2 * bitAt(w, 8 * j + 1) + 4 * bitAt(w, 8 * j + 2)
  + 8 * bitAt(w, 8 * j + 3) + 16 * bitAt(w, 8 * j + 4) + 32 * bitAt(w, 8 * j + 5)
  + 64 * bitAt(w, 8 * j + 6) + 128 * bitAt(w, 8 * j + 7)

\* The word with the given four bytes, lowest first.
wordOfBytes(b) == { i \in 0..31 : (b[(i \div 8) + 1] \div (2 ^ (i % 8))) % 2 = 1 }

\* The word of a number below 2^31.
wordOf(n) == { i \in 0..30 : (n \div (2 ^ i)) % 2 = 1 }

\* a + b on 32 bits, byte by byte with carry.
add32(a, b) ==
  LET k0 == byteOf(a, 0) + byteOf(b, 0)
      k1 == byteOf(a, 1) + byteOf(b, 1) + (k0 \div 256)
      k2 == byteOf(a, 2) + byteOf(b, 2) + (k1 \div 256)
      k3 == byteOf(a, 3) + byteOf(b, 3) + (k2 \div 256)
  IN  wordOfBytes(<<k0 % 256, k1 % 256, k2 % 256, k3 % 256>>)

\* Math.imul(a, b): the low 32 bits of the product, by columns of bytes.
imul(a, b) ==
  LET a0 == byteOf(a, 0)
      a1 == byteOf(a, 1)
      a2 == byteOf(a, 2)
      a3 == byteOf(a, 3)
      b0 == byteOf(b, 0)
      b1 == byteOf(b, 1)
      b2 == byteOf(b, 2)
      b3 == byteOf(b, 3)
      k0 == a0 * b0
      k1 == a0 * b1 + a1 * b0 + (k0 \div 256)
      k2 == a0 * b2 + a1 * b1 + a2 * b0 + (k1 \div 256)
      k3 == a0 * b3 + a1 * b2 + a2 * b1 + a3 * b0 + (k2 \div 256)
  IN  wordOfBytes(<<k0 % 256, k1 % 256, k2 % 256, k3 % 256>>)

\* w >>> k
shiftRight(w, k) == { i - k : i \in { j \in w : j >= k } }

\* The n-th value (n = 1 for the first) returned by mulberry32(0x5eed): seed
\* has then been increased n times by 0x6d2b79f5, and the bit operations see
\* its low 32 bits.
mulberry32(n) ==
  LET seed == add32(wordOf(24301), imul(wordOf(n), wordOf(1831565813)))
      t1 == imul(Xor(seed, shiftRight(seed, 15)), seed \cup {0})
      t2 == Xor(t1, shiftRight(t1, 7))
  IN  Xor(t2, shiftRight(t2, 12))

\* The k-th value (k = 0 for the first) returned by random64(prng):
\* (BigInt(hi) << 32n) | BigInt(lo), lo drawn before hi.
random64(k) ==
  LET lo == mulberry32(2 * k + 1)
      hi == mulberry32(2 * k + 2)
  IN  lo \cup { i + 32 : i \in hi }

\* ZOBRIST_PIECES, ZOBRIST_SIDE, ZOBRIST_CASTLE and ZOBRIST_EP, in the order
\* initZobrist draws them.
zobristTable == [k \in 0..(64 * 12 + 1 + 4 + 8 - 1) |-> random64(k)]

\* The table entries whose bit b is 1.
zobristEntriesWithBit == [b \in 0..63 |-> { k \in DOMAIN zobristTable : b \in zobristTable[k] }]

\* The 64-bit value of a key given by its table entries: bit b is 1 when an
\* odd number of the entries have it.
zobristValue(key) ==
  UNION { { b \in 0..63 : Cardinality(entries \cap zobristEntriesWithBit[b]) % 2 = 1 } :
          entries \in {key} }

(***************************************************************************)
(* SAN parsing and resolution.                                             *)
(***************************************************************************)
\* The value modelling null (resolveSAN, parseSAN) .
null == [null |-> TRUE]

PieceLetters == {"N", "B", "R", "Q", "K"}

PromotionLetters == {"N", "B", "R", "Q"}

toLowerCase(ch) ==
  IF ch = "N" THEN "n" ELSE IF ch = "B" THEN "b" ELSE IF ch = "R" THEN "r"
  ELSE IF ch = "Q" THEN "q" ELSE ch

\* squareToIndex of a two-character square name of [a-h][1-8].
squareToIndex(fileCh, rankCh) == (digitValue(rankCh) - 1) * 8 + fileIndex(fileCh)

isSquareAt(s, i) ==
  i >= 1 /\ i + 1 <= Len(s) /\ isFileChar(s[i]) /\ isRankChar(s[i + 1])

\* The length of the match of /([a-h][1-8])(?:=([NBRQ]))?$/ in s: 4 with a
\* promotion, 2 without, 0 when there is no match.  The pattern is anchored at
\* the end, so the match is a suffix.
targetPromoLength(s) ==
  LET n == Len(s)
  IN  IF n >= 4 /\ s[n] \in PromotionLetters /\ s[n - 1] = "=" /\ isSquareAt(s, n - 3) THEN 4
      ELSE IF isSquareAt(s, n - 1) THEN 2
      ELSE 0

\* The disambiguation part of parseSAN, on what is left of the text once the
\* target, one trailing "x" and the piece letter are taken off.
disambOf(rest) ==
  [ file |-> IF rest # <<>> /\ isFileChar(rest[1]) THEN rest[1] ELSE "",
    rank |-> IF rest # <<>> /\ isRankChar(rest[Len(rest)]) THEN rest[Len(rest)] ELSE "" ]

parseSAN(san) ==
  LET s == trim(san)
      n == Len(s)
      m == targetPromoLength(s)
  IN  IF s = <<"O", "-", "O">> \/ s = <<"O", "-", "O", "-", "O">>
      THEN [ piece |-> "", targetIndex |-> -1, disambFile |-> "", disambRank |-> "",
             promotion |-> "", castle |-> IF s = <<"O", "-", "O">> THEN "K" ELSE "Q" ]
      ELSE IF m = 0 THEN null
      ELSE LET rest0 == SubSeq(s, 1, n - m)
               rest1 == IF rest0 # <<>> /\ rest0[Len(rest0)] = "x"
                        THEN SubSeq(rest0, 1, Len(rest0) - 1) ELSE rest0
               hasPiece == rest1 # <<>> /\ rest1[1] \in PieceLetters
               rest == IF hasPiece THEN Tail(rest1) ELSE rest1
               d == disambOf(rest)
           IN  [ piece |-> IF hasPiece THEN rest1[1] ELSE "",
                 targetIndex |-> squareToIndex(s[n - m + 1], s[n - m + 2]),
                 disambFile |-> d.file,
                 disambRank |-> d.rank,
                 promotion |-> IF m = 4 THEN toLowerCase(s[n]) ELSE "",
                 castle |-> "" ]

fileMask(fileIdx) == { sq \in Squares : sq % 8 = fileIdx }

rankMask(rankIdx) == { sq \in Squares : sq \div 8 = rankIdx }

\* Mutant of disambFiltered: the file fragment is not applied.
disambFilteredRankOnly(candidates, disambFile, disambRank) ==
  IF disambRank # "" THEN candidates \cap rankMask(digitValue(disambRank) - 1)
  ELSE candidates

\* The candidates left by the file and rank masks of filterDisamb.
disambFiltered(candidates, disambFile, disambRank) ==
  LET bb1 == IF disambFile # "" THEN candidates \cap fileMask(fileIndex(disambFile))
             ELSE candidates
  IN  IF disambRank # "" THEN bb1 \cap rankMask(digitValue(disambRank) - 1)
      ELSE bb1

\* filterDisamb: the single square left, or -1 when none or several are left.
filterDisamb(candidates, disambFile, disambRank) ==
  LET bb == disambFiltered(candidates, disambFile, disambRank) \cap Squares
  IN  IF Cardinality(bb) = 1 THEN CHOOSE sq \in bb : TRUE ELSE -1

\* Mutant of pawnCandidates: the two-rank advance does not look at the square
\* between.
pawnCandidatesJumping(p, toSq, disambFile) ==
  LET side == p.sideToMove
      oneBack == IF side = WHITE THEN toSq - 8 ELSE toSq + 8
      twoBack == IF side = WHITE THEN toSq - 16 ELSE toSq + 16
      toRank == toSq \div 8
  IN  IF disambFile # ""
      THEN (pawnCaptureSources(toSq, side) \cap p.pawns[side]) \cap fileMask(fileIndex(disambFile))
      ELSE IF p.pawns[side] \cap bit(oneBack) # {} THEN bit(oneBack)
      ELSE IF /\ (IF side = WHITE THEN toRank = 3 ELSE toRank = 4)
              /\ p.pawns[side] \cap bit(twoBack) # {}
           THEN bit(twoBack)
      ELSE {}
\* The pawn branch of resolveSAN.
pawnCandidates(p, toSq, disambFile) ==
  LET side == p.sideToMove
      occ == allOcc(p)
      oneBack == IF side = WHITE THEN toSq - 8 ELSE toSq + 8
      twoBack == IF side = WHITE THEN toSq - 16 ELSE toSq + 16
      toRank == toSq \div 8
  IN  IF disambFile # ""
      THEN (pawnCaptureSources(toSq, side) \cap p.pawns[side]) \cap fileMask(fileIndex(disambFile))
      ELSE IF p.pawns[side] \cap bit(oneBack) # {} THEN bit(oneBack)
      ELSE IF /\ (IF side = WHITE THEN toRank = 3 ELSE toRank = 4)
              /\ p.pawns[side] \cap bit(twoBack) # {}
              /\ occ \cap bit(oneBack) = {}
           THEN bit(twoBack)
      ELSE {}

\* Mutant of sanCandidates: the knights of both colours are candidates.
sanCandidatesEitherColour(p, ps) ==
  LET side == p.sideToMove
      occ == allOcc(p)
      toSq == ps.targetIndex
  IN  IF ps.piece = "K" THEN kingAttacks(toSq) \cap p.kings[side]
      ELSE IF ps.piece = "N"
           THEN knightAttacks(toSq) \cap (p.knights[WHITE] \cup p.knights[BLACK])
      ELSE IF ps.piece = "R" THEN getRookAttacks(toSq, occ) \cap p.rooks[side]
      ELSE IF ps.piece = "B" THEN getBishopAttacks(toSq, occ) \cap p.bishops[side]
      ELSE IF ps.piece = "Q"
           THEN (getRookAttacks(toSq, occ) \cup getBishopAttacks(toSq, occ)) \cap p.queens[side]
      ELSE pawnCandidates(p, toSq, ps.disambFile)
\* The candidate origins resolveSAN computes before disambiguation.
sanCandidates(p, ps) ==
  LET side == p.sideToMove
      occ == allOcc(p)
      toSq == ps.targetIndex
  IN  IF ps.piece = "K" THEN kingAttacks(toSq) \cap p.kings[side]
      ELSE IF ps.piece = "N" THEN knightAttacks(toSq) \cap p.knights[side]
      ELSE IF ps.piece = "R" THEN getRookAttacks(toSq, occ) \cap p.rooks[side]
      ELSE IF ps.piece = "B" THEN getBishopAttacks(toSq, occ) \cap p.bishops[side]
      ELSE IF ps.piece = "Q"
           THEN (getRookAttacks(toSq, occ) \cup getBishopAttacks(toSq, occ)) \cap p.queens[side]
      ELSE pawnCandidates(p, toSq, ps.disambFile)

\* Mutant of sanOrigin: no second look at the unfiltered candidates.
sanOriginNoFallback(candidates, ps) ==
  filterDisamb(candidates, ps.disambFile, ps.disambRank)

\* The origin resolveSAN settles on: filterDisamb's square, or, when that is -1
\* and there are candidates, the candidate when there is exactly one.
sanOrigin(candidates, ps) ==
  LET fromSq == filterDisamb(candidates, ps.disambFile, ps.disambRank)
  IN  IF fromSq < 0 /\ candidates # {}
      THEN (IF Cardinality(candidates \cap Squares) = 1
            THEN CHOOSE sq \in candidates \cap Squares : TRUE ELSE -1)
      ELSE fromSq

\* A move descriptor; an absent promotion or castle is "", an absent enpassant FALSE.
Move(from, to, promotion, castle, enpassant) ==
  [from |-> from, to |-> to, promotion |-> promotion, castle |-> castle,
   enpassant |-> enpassant]

\* The value held by a const of the source: the element of a one-element set.
only(S) == CHOOSE x \in S : TRUE

\* Mutant of resolveFrom: every pawn text with a file fragment gets the
\* en-passant flag, whatever stands on the destination.
resolveFromFlagsCaptures(p, ps, candidates) ==
  LET fromSq == sanOrigin(candidates, ps)
  IN  IF fromSq < 0 THEN null
      ELSE Move(fromSq, ps.targetIndex, ps.promotion, "",
                ps.piece = "" /\ ps.disambFile # "")
\* resolveSAN once the candidates are known: filter, fall back, build the move.
resolveFrom(p, ps, candidates) ==
  LET fromSq == sanOrigin(candidates, ps)
  IN  IF fromSq < 0 THEN null
      ELSE Move(fromSq, ps.targetIndex, ps.promotion, "",
                /\ ps.piece = ""
                /\ ps.disambFile # ""
                /\ allOcc(p) \cap bit(ps.targetIndex) = {})

\* Mutant of resolveParsed: a castle text resolves only with the mover's king
\* on its start square.
resolveParsedChecksKing(p, ps) ==
  IF ps = null THEN null
  ELSE IF ps.castle # ""
  THEN LET side == p.sideToMove
       IN  IF (IF side = WHITE THEN 4 ELSE 60) \notin p.kings[side] THEN null
           ELSE Move(IF side = WHITE THEN 4 ELSE 60,
                     IF ps.castle = "K" THEN (IF side = WHITE THEN 6 ELSE 62)
                     ELSE (IF side = WHITE THEN 2 ELSE 58),
                     "", ps.castle, FALSE)
  ELSE only({ resolveFrom(p, ps, candidates) : candidates \in {sanCandidates(p, ps)} })
\* resolveSAN once the text is parsed (const p = parseSAN(san)).
resolveParsed(p, ps) ==
  IF ps = null THEN null
  ELSE IF ps.castle # ""
  THEN LET side == p.sideToMove
       IN  Move(IF side = WHITE THEN 4 ELSE 60,
                IF ps.castle = "K" THEN (IF side = WHITE THEN 6 ELSE 62)
                ELSE (IF side = WHITE THEN 2 ELSE 58),
                "", ps.castle, FALSE)
  ELSE only({ resolveFrom(p, ps, candidates) : candidates \in {sanCandidates(p, ps)} })

resolveSAN(p, san) == only({ resolveParsed(p, ps) : ps \in {parseSAN(san)} })

\* Mutant of makeMoveSAN: a text that does not resolve still ends the turn.
makeMoveSANEndsTurn(p, san) ==
  only({ IF move = null THEN finishMove(p) ELSE makeMove(p, move) : move \in {resolveSAN(p, san)} })

\* makeMoveSAN for a string argument: the engine afterwards.
makeMoveSAN(p, san) ==
  only({ IF move = null THEN p ELSE makeMove(p, move) : move \in {resolveSAN(p, san)} })

(***************************************************************************)
(* The C engine, bitboard_chess.c.  A Board has the fields of the JS        *)
(* position; a char* is the sequence of its characters before the NUL.      *)
(* The attack tables and get_rook_attacks, get_bishop_attacks and           *)
(* pawn_capture_sources are the sets of their index.mjs namesakes.  BIT(n)  *)
(* is defined for n in 0..63 only; the texts applied keep it there.         *)
(***************************************************************************)
board_reset ==
  [ pawns      |-> both(8..15, 48..55),
    rooks      |-> both({0, 7}, {56, 63}),
    knights    |-> both({1, 6}, {57, 62}),
    bishops    |-> both({2, 5}, {58, 61}),
    queens     |-> both({3}, {59}),
    kings      |-> both({4}, {60}),
    sideToMove |-> WHITE,
    castling   |-> <<"K", "Q", "k", "q">>,
    enPassant  |-> -1,
    halfmove   |-> 0,
    fullmove   |-> 1 ]

\* strncmp(san, lit, n) == 0 for the n characters of lit
strncmpEqual(san, lit) == Len(san) >= Len(lit) /\ SubSeq(san, 1, Len(lit)) = lit

\* while (rest_len > 0 && san[rest_len - 1] == 'x') rest_len--;
RECURSIVE stripCaptureMarks(_, _)
stripCaptureMarks(san, rest_len) ==
  IF rest_len > 0 /\ san[rest_len] = "x" THEN stripCaptureMarks(san, rest_len - 1)
  ELSE rest_len

\* The castle results of parse_san.
parsedCastle(wing) ==
  [ piece |-> "", targetIndex |-> -1, disambFile |-> -1, disambRank |-> -1,
    promotion |-> "", castle |-> wing ]

\* parse_san: the ParseSANResult, or null for a false return.  A piece,
\* promotion or castle of 0 is "", an absent file or rank -1.
RECURSIVE parse_san(_)
parse_san(san) ==
  IF san # <<>> /\ Head(san) = " " THEN parse_san(Tail(san))
  ELSE IF strncmpEqual(san, <<"O", "-", "O", "-", "O">>) THEN parsedCastle("Q")
  ELSE IF strncmpEqual(san, <<"O", "-", "O">>) THEN parsedCastle("K")
  ELSE IF Len(san) < 2 THEN null
  ELSE
    LET len == Len(san)
        promo == len >= 4 /\ san[len - 1] = "=" /\ san[len] \in {"N", "B", "R", "Q"}
        p == IF promo THEN len - 3 ELSE len - 1
    IN  IF ~(isFileChar(san[p]) /\ isRankChar(san[p + 1])) THEN null
        ELSE
          LET rest_len == stripCaptureMarks(san, IF promo THEN len - 4 ELSE len - 2)
              isPiece == rest_len > 0 /\ san[1] \in {"N", "B", "R", "Q", "K"}
              file == IF rest_len = 0 THEN -1
                      ELSE IF isPiece
                      THEN (IF rest_len >= 2 /\ isFileChar(san[2]) THEN fileIndex(san[2]) ELSE -1)
                      ELSE (IF isFileChar(san[1]) THEN fileIndex(san[1]) ELSE -1)
              rank == IF rest_len >= 1 /\ isRankChar(san[rest_len])
                      THEN digitValue(san[rest_len]) - 1 ELSE -1
              square == rest_len = 2 /\ isFileChar(san[1]) /\ isRankChar(san[2])
          IN  [ piece |-> IF isPiece THEN san[1] ELSE "",
                targetIndex |-> squareToIndex(san[p], san[p + 1]),
                disambFile |-> IF square THEN fileIndex(san[1]) ELSE file,
                disambRank |-> IF square THEN digitValue(san[2]) - 1 ELSE rank,
                promotion |-> IF promo THEN toLowerCase(san[len]) ELSE "",
                castle |-> "" ]

all_occ(b) ==
  UNION { b.pawns[c] \cup b.knights[c] \cup b.bishops[c] \cup b.rooks[c]
            \cup b.queens[c] \cup b.kings[c] : c \in {WHITE, BLACK} }

filter_disamb(candidates, disamb_file, disamb_rank) ==
  LET bb1 == IF disamb_file >= 0 THEN candidates \cap fileMask(disamb_file) ELSE candidates
      bb == IF disamb_rank >= 0 THEN bb1 \cap rankMask(disamb_rank) ELSE bb1
  IN  IF Cardinality(bb) = 1 THEN CHOOSE sq \in bb : TRUE ELSE -1

\* The candidates of resolve_san for a parsed text that is no castle.
resolveCandidates(b, p) ==
  LET side == b.sideToMove
      occ == all_occ(b)
      to_sq == p.targetIndex
      one_back == IF side = WHITE THEN to_sq - 8 ELSE to_sq + 8
      two_back == IF side = WHITE THEN to_sq - 16 ELSE to_sq + 16
      to_rank == to_sq \div 8
  IN  IF p.piece = "K" THEN kingAttacks(to_sq) \cap b.kings[side]
      ELSE IF p.piece = "N" THEN knightAttacks(to_sq) \cap b.knights[side]
      ELSE IF p.piece = "R" THEN getRookAttacks(to_sq, occ) \cap b.rooks[side]
      ELSE IF p.piece = "B" THEN getBishopAttacks(to_sq, occ) \cap b.bishops[side]
      ELSE IF p.piece = "Q"
      THEN (getRookAttacks(to_sq, occ) \cup getBishopAttacks(to_sq, occ)) \cap b.queens[side]
      ELSE IF p.disambFile >= 0
      THEN (pawnCaptureSources(to_sq, side) \cap b.pawns[side]) \cap fileMask(p.disambFile)
      ELSE IF one_back \in b.pawns[side] THEN {one_back}
      ELSE IF /\ (IF side = WHITE THEN to_rank = 3 ELSE to_rank = 4)
              /\ two_back \in b.pawns[side]
              /\ one_back \notin occ
      THEN {two_back}
      ELSE {}

\* The origin resolve_san settles on for the candidates, and its Move.
resolveOrigin(b, p, candidates) ==
  LET filtered == filter_disamb(candidates, p.disambFile, p.disambRank)
      from_sq == IF filtered < 0 /\ candidates # {}
                 THEN (IF Cardinality(candidates) = 1
                       THEN CHOOSE sq \in candidates : TRUE ELSE -1)
                 ELSE filtered
  IN  IF from_sq < 0 THEN null
      ELSE Move(from_sq, p.targetIndex, p.promotion, "",
                p.piece = "" /\ p.disambFile >= 0 /\ p.targetIndex \notin all_occ(b))

\* resolve_san for a parsed text.
resolveParsedSan(b, p) ==
  IF p = null THEN null
  ELSE IF p.castle # ""
  THEN Move(IF b.sideToMove = WHITE THEN 4 ELSE 60,
            IF p.castle = "K" THEN (IF b.sideToMove = WHITE THEN 6 ELSE 62)
                              ELSE (IF b.sideToMove = WHITE THEN 2 ELSE 58),
            "", p.castle, FALSE)
  ELSE only({ resolveOrigin(b, p, candidates) : candidates \in {resolveCandidates(b, p)} })

\* resolve_san: the Move, or null for a false return.
resolve_san(b, san) == only({ resolveParsedSan(b, p) : p \in {parse_san(san)} })

\* The copy loops of make_move over b->castling that skip the letters in skipped.
withoutLetters(castling, skipped) == SelectSeq(castling, LAMBDA c : c \notin skipped)

make_move(b, move) ==
  LET side == b.sideToMove
      enemy == 1 - side
      from == move.from
      to == move.to
      turn(q) == [q EXCEPT !.sideToMove = enemy,
                           !.fullmove = IF enemy = WHITE THEN @ + 1 ELSE @]
  IN  IF move.castle # ""
      THEN turn([b EXCEPT
             !.kings[side] = Xor(@, {from} \cup {to}),
             !.rooks[side] = Xor(@, IF move.castle = "K"
                                    THEN (IF side = WHITE THEN {7, 5} ELSE {63, 61})
                                    ELSE (IF side = WHITE THEN {0, 3} ELSE {56, 59})),
             !.castling = withoutLetters(@, IF side = WHITE THEN {"K", "Q"} ELSE {"k", "q"})])
      ELSE
        LET cap_sq == IF side = WHITE THEN to - 8 ELSE to + 8
            b1 == IF move.enpassant THEN [b EXCEPT !.pawns[enemy] = @ \ {cap_sq}] ELSE b
            b2 == [b1 EXCEPT !.pawns[enemy] = @ \ {to}, !.knights[enemy] = @ \ {to},
                             !.bishops[enemy] = @ \ {to}, !.rooks[enemy] = @ \ {to},
                             !.queens[enemy] = @ \ {to}, !.kings[enemy] = @ \ {to}]
            moved_pawn == from \in b2.pawns[side]
            moved_rook == from \in b2.rooks[side]
            kind == IF from \in b2.pawns[side] THEN "pawns"
                    ELSE IF from \in b2.knights[side] THEN "knights"
                    ELSE IF from \in b2.bishops[side] THEN "bishops"
                    ELSE IF from \in b2.rooks[side] THEN "rooks"
                    ELSE IF from \in b2.queens[side] THEN "queens"
                    ELSE "kings"
            b3 == [b2 EXCEPT ![kind][side] = Xor(@, {from}) \cup {to}]
            target == IF move.promotion = "q" THEN "queens"
                      ELSE IF move.promotion = "r" THEN "rooks"
                      ELSE IF move.promotion = "b" THEN "bishops"
                      ELSE "knights"
            b4 == IF move.promotion # ""
                  THEN [[b3 EXCEPT !.pawns[side] = @ \ {to}] EXCEPT ![target][side] = @ \cup {to}]
                  ELSE b3
            b5 == [b4 EXCEPT !.enPassant =
                     IF moved_pawn /\ (to - from = 16 \/ from - to = 16)
                     THEN (from + to) \div 2 ELSE -1]
            c1 == IF from \in b5.kings[side]
                  THEN withoutLetters(b5.castling, IF side = WHITE THEN {"K", "Q"} ELSE {"k", "q"})
                  ELSE b5.castling
            c2 == IF moved_rook
                  THEN withoutLetters(c1, (IF from = 0 THEN {"Q"} ELSE {})
                                            \cup (IF from = 7 THEN {"K"} ELSE {})
                                            \cup (IF from = 56 THEN {"q"} ELSE {})
                                            \cup (IF from = 63 THEN {"k"} ELSE {}))
                  ELSE c1
        IN  turn([b5 EXCEPT !.castling = c2])

\* board_make_move_san: the Board after the call and the flag returned.
board_make_move_san(b, san) ==
  only({ IF move = null THEN [board |-> b, ok |-> FALSE]
         ELSE [board |-> make_move(b, move), ok |-> TRUE] :
         move \in {resolve_san(b, san)} })

\* The piece character board_to_fen finds for a square, "" for none.
boardPiece(b, sq) ==
  IF sq \in b.pawns[WHITE] THEN "P"
  ELSE IF sq \in b.knights[WHITE] THEN "N"
  ELSE IF sq \in b.bishops[WHITE] THEN "B"
  ELSE IF sq \in b.rooks[WHITE] THEN "R"
  ELSE IF sq \in b.queens[WHITE] THEN "Q"
  ELSE IF sq \in b.kings[WHITE] THEN "K"
  ELSE IF sq \in b.pawns[BLACK] THEN "p"
  ELSE IF sq \in b.knights[BLACK] THEN "n"
  ELSE IF sq \in b.bishops[BLACK] THEN "b"
  ELSE IF sq \in b.rooks[BLACK] THEN "r"
  ELSE IF sq \in b.queens[BLACK] THEN "q"
  ELSE IF sq \in b.kings[BLACK] THEN "k"
  ELSE ""

\* The loop of board_to_fen over the files f..7 of rank r.
RECURSIVE boardRank(_, _, _, _)
boardRank(b, r, f, empty) ==
  IF f = 8 THEN (IF empty > 0 THEN numberToString(empty) ELSE <<>>)
  ELSE LET piece == boardPiece(b, r * 8 + f)
       IN  IF piece = "" THEN boardRank(b, r, f + 1, empty + 1)
           ELSE (IF empty > 0 THEN numberToString(empty) ELSE <<>>)
                  \o <<piece>> \o boardRank(b, r, f + 1, 0)

\* The loop of board_to_fen over the ranks r..0.
RECURSIVE boardPlacement(_, _)
boardPlacement(b, r) ==
  boardRank(b, r, 0, 0) \o (IF r > 0 THEN <<"/">> \o boardPlacement(b, r - 1) ELSE <<>>)

board_to_fen(b) ==
  boardPlacement(b, 7)
    \o <<" ">> \o (IF b.sideToMove = WHITE THEN <<"w">> ELSE <<"b">>)
    \o <<" ">> \o (IF b.castling # <<>> THEN b.castling ELSE <<"-">>)
    \o <<" ">> \o (IF b.enPassant >= 0
                   THEN <<FileChars[(b.enPassant % 8) + 1]>>
                          \o numberToString((b.enPassant \div 8) + 1)
                   ELSE <<"-">>)
    \o <<" ">> \o numberToString(b.halfmove)
    \o <<" ">> \o numberToString(b.fullmove)

(***************************************************************************)
(* Inputs.                                                                 *)
(***************************************************************************)
\* Origin and destination of the descriptors without flags.
PlainPairs ==
  { <<12, 28>>, <<52, 36>>, <<51, 35>>, <<28, 35>>, <<12, 36>>,   \* pawns
    <<4, 12>>, <<60, 52>>, <<4, 7>>,                              \* kings
    <<0, 16>>, <<7, 23>>, <<56, 40>>, <<63, 47>>, <<0, 5>>, <<16, 24>>,  \* rooks
    <<6, 21>>, <<57, 42>> }                                       \* knights

PlainMoves == { Move(pr[1], pr[2], "", "", FALSE) : pr \in PlainPairs }

EnPassantMoves == { Move(36, 43, "", "", TRUE) }

PromotionMoves == { Move(12, 60, pr, "", FALSE) : pr \in {"q", "r", "b", "n"} }

CastleMoves ==
  { Move(4, 6, "", "K", FALSE), Move(4, 2, "", "Q", FALSE),
    Move(60, 62, "", "K", FALSE), Move(60, 58, "", "Q", FALSE) }

Moves == PlainMoves \cup EnPassantMoves \cup PromotionMoves \cup CastleMoves

\* Descriptors that no rule of chess produces: an empty origin, a promotion
\* from an empty origin onto a king, an en-passant flag on a knight move, a
\* move that stays in place.
OddMoves ==
  { Move(20, 52, "", "", FALSE), Move(30, 4, "q", "", FALSE),
    Move(1, 18, "", "", TRUE), Move(59, 59, "", "", FALSE) }

\* The descriptors without a castle.
NonCastleMoves == PlainMoves \cup EnPassantMoves \cup PromotionMoves \cup OddMoves
SANTexts ==
  { <<"e", "4">>, <<"e", "5">>, <<"d", "5">>, <<"a", "4">>, <<"h", "5">>,
    <<"e", "x", "d", "5">>, <<"d", "x", "e", "4">>,
    <<"N", "f", "3">>, <<"N", "c", "6">>, <<"N", "f", "6">>,
    <<"N", "d", "2">>, <<"N", "b", "d", "2">>, <<"N", "f", "d", "2">>,
    <<"N", "1", "d", "2">>, <<"N", "g", "d", "2">>,
    <<"N", "b", "f", "3">>, <<"N", "g", "f", "3">>,
    <<"K", "e", "2">>, <<"K", "e", "7">>,
    <<"R", "a", "3">>, <<"R", "h", "6">>,
    <<"B", "c", "4">>, <<"Q", "h", "5">>,
    <<"O", "-", "O">>, <<"O", "-", "O", "-", "O">>,
    <<"e", "4", "+">>, <<"N", "f", "3", "#">>, <<>>,
    <<"i", "n", "v", "a", "l", "i", "d">> }

\* The texts given to both engines: those above, and texts with a check mark
\* after a castle and with blanks around a move.
BothSANTexts ==
  SANTexts \cup { <<"O", "-", "O", "+">>, <<"e", "4", " ">>, <<" ", "e", "4">>,
                  <<"e", "x", "d", "6">>, <<"Q", "x", "f", "7">> }

\* The texts of the line 1. e4 e5 2. Nf3 Nc6.
BaseTexts == << <<"e", "4">>, <<"e", "5">>, <<"N", "f", "3">>, <<"N", "c", "6">> >>

\* The texts of that line and of its continuation 3. Be2 Nf6 4. O-O, and two
\* pawn texts: f4, which a knight on f3 blocks, and e6.
GameTexts ==
  { BaseTexts[i] : i \in 1..Len(BaseTexts) }
    \cup { <<"B", "e", "2">>, <<"N", "f", "6">>, <<"O", "-", "O">>,
            <<"f", "4">>, <<"e", "6">> }
\* The standard initial position.
\* "rnbqkbnr/pppppppp/8/8/8/8/PPPPPPPP/RNBQKBNR w KQkq - 0 1"
FenStart ==
  << "r", "n", "b", "q", "k", "b", "n", "r", "/", "p", "p", "p", "p", "p",
     "p", "p", "p", "/", "8", "/", "8", "/", "8", "/", "8", "/", "P", "P",
     "P", "P", "P", "P", "P", "P", "/", "R", "N", "B", "Q", "K", "B", "N",
     "R", " ", "w", " ", "K", "Q", "k", "q", " ", "-", " ", "0", " ", "1" >>

\* The position after 1. e4, with the castling letters in another order and other counters.
\* "rnbqkbnr/pppppppp/8/8/4P3/8/PPPP1PPP/RNBQKBNR b qkQK e3 3 7"
FenAfterE4 ==
  << "r", "n", "b", "q", "k", "b", "n", "r", "/", "p", "p", "p", "p", "p",
     "p", "p", "p", "/", "8", "/", "8", "/", "4", "P", "3", "/", "8", "/",
     "P", "P", "P", "P", "1", "P", "P", "P", "/", "R", "N", "B", "Q", "K",
     "B", "N", "R", " ", "b", " ", "q", "k", "Q", "K", " ", "e", "3", " ",
     "3", " ", "7" >>

\* A white pawn on e5, black to move.
\* "rnbqkbnr/pppppppp/8/4P3/8/8/PPPP1PPP/RNBQKBNR b KQkq - 0 2"
FenPawnE5 ==
  << "r", "n", "b", "q", "k", "b", "n", "r", "/", "p", "p", "p", "p", "p",
     "p", "p", "p", "/", "8", "/", "4", "P", "3", "/", "8", "/", "8", "/",
     "P", "P", "P", "P", "1", "P", "P", "P", "/", "R", "N", "B", "Q", "K",
     "B", "N", "R", " ", "b", " ", "K", "Q", "k", "q", " ", "-", " ", "0",
     " ", "2" >>

\* Pawns on b7 and b2 about to promote, no castling rights.
\* "r3k3/1P6/8/8/8/8/1p6/R3K3 w - - 5 40"
FenPromotion ==
  << "r", "3", "k", "3", "/", "1", "P", "6", "/", "8", "/", "8", "/", "8",
     "/", "8", "/", "1", "p", "6", "/", "R", "3", "K", "3", " ", "w", " ",
     "-", " ", "-", " ", "5", " ", "4", "0" >>

\* An empty board written with seven ranks, and one written with nine.
\* "8/8/8/8/8/8/8 b - - 4 9"
FenSevenRanks ==
  << "8", "/", "8", "/", "8", "/", "8", "/", "8", "/", "8", "/", "8", " ",
     "b", " ", "-", " ", "-", " ", "4", " ", "9" >>

\* "8/8/8/8/8/8/8/8/8 b - - 4 9"
FenNineRanks ==
  << "8", "/", "8", "/", "8", "/", "8", "/", "8", "/", "8", "/", "8", "/",
     "8", "/", "8", " ", "b", " ", "-", " ", "-", " ", "4", " ", "9" >>

\* FEN texts with another number of ranks than eight, and two with eight.
OddFENTexts == {FenSevenRanks, FenNineRanks, FenPromotion, FenAfterE4}
FENTexts == {FenStart, FenAfterE4, FenPawnE5, FenPromotion}

\* Texts for play from the imported positions.
FenSANTexts ==
  { <<"e", "4">>, <<"d", "5">>, <<"e", "x", "d", "6">>,
    <<"b", "8", "=", "Q">>, <<"b", "x", "a", "8", "=", "N">>,
    <<"b", "1", "=", "R">>, <<"b", "x", "a", "1", "=", "B">>,
    <<"O", "-", "O">>, <<"R", "x", "a", "8">> }

\* Descriptors for play from the imported positions.
FenMoves ==
  { Move(12, 28, "", "", FALSE), Move(51, 35, "", "", FALSE),
    Move(36, 43, "", "", TRUE), Move(49, 57, "q", "", FALSE),
    Move(4, 6, "", "K", FALSE) }

(***************************************************************************)
(* State machine.  engine is the BitboardChess object; last is the latest  *)
(* call (its name, its argument, the descriptor it applied, its result);   *)
(* plies counts the calls made since construction.  native is the Board of *)
(* a C engine created beside the JS one, with the flag its last call       *)
(* returned; only calls made on both engines change it.                    *)
(***************************************************************************)
NoCall == [op |-> "new", san |-> <<>>, fen |-> <<>>, move |-> null, ok |-> TRUE]

Init ==
  /\ engine = reset
  /\ last = NoCall
  /\ plies = 0
  /\ native = [board |-> board_reset, ok |-> TRUE]

\* board.makeMove(m)
MakeMove(m, bound) ==
  /\ plies < bound
  /\ engine' = makeMove(engine, m)
  /\ last' = [op |-> "makeMove", san |-> <<>>, fen |-> <<>>, move |-> m, ok |-> TRUE]
  /\ plies' = plies + 1
  /\ UNCHANGED native

\* board.makeMoveSAN(t): false and no change when t does not resolve.
MakeMoveSAN(t, bound) ==
  /\ plies < bound
  /\ engine' = makeMoveSAN(engine, t)
  /\ \E move \in {resolveSAN(engine, t)} :
       last' = [op |-> "makeMoveSAN", san |-> t, fen |-> <<>>, move |-> move,
                ok |-> move # null]
  /\ plies' = plies + 1
  /\ UNCHANGED native

\* board.loadFromFEN(f)
LoadFromFEN(f, bound) ==
  /\ plies < bound
  /\ engine' = loadFromFEN(engine, f)
  /\ last' = [op |-> "loadFromFEN", san |-> <<>>, fen |-> f, move |-> null, ok |-> TRUE]
  /\ plies' = plies + 1
  /\ UNCHANGED native

\* board.reset()
Reset(bound) ==
  /\ plies < bound
  /\ engine' = reset
  /\ last' = [op |-> "reset", san |-> <<>>, fen |-> <<>>, move |-> null, ok |-> TRUE]
  /\ plies' = plies + 1
  /\ UNCHANGED native

\* The same text given to board.makeMoveSAN and to board_make_move_san.
MakeMoveSANBoth(t, bound) ==
  /\ plies < bound
  /\ engine' = makeMoveSAN(engine, t)
  /\ \E move \in {resolveSAN(engine, t)} :
       last' = [op |-> "makeMoveSAN", san |-> t, fen |-> <<>>, move |-> move,
                ok |-> move # null]
  /\ plies' = plies + 1
  /\ native' = board_make_move_san(native.board, t)

NextMove == \E m \in Moves : MakeMove(m, MaxPlies)

NextSAN == \E t \in SANTexts : MakeMoveSAN(t, MaxPlies)

Next ==
  \/ \E m \in Moves : MakeMove(m, MaxMixedPlies)
  \/ \E t \in SANTexts : MakeMoveSAN(t, MaxMixedPlies)

NextFEN ==
  \/ \E f \in FENTexts : LoadFromFEN(f, MaxFenPlies)
  \/ \E t \in FenSANTexts : MakeMoveSAN(t, MaxFenPlies)
  \/ \E m \in FenMoves : MakeMove(m, MaxFenPlies)
  \/ Reset(MaxFenPlies)

NextBoth == \E t \in BothSANTexts : MakeMoveSANBoth(t, MaxBothPlies)

NextOddFEN ==
  \/ \E f \in OddFENTexts : LoadFromFEN(f, MaxFenPlies)
  \/ \E t \in FenSANTexts : MakeMoveSAN(t, MaxFenPlies)
  \/ Reset(MaxFenPlies)
\* The descriptor moves a piece of the side to move to a square that side does
\* not occupy: what a caller that replays validated moves passes.
movesOwnPiece(p, m) ==
  /\ m.from \in occupancy(p, p.sideToMove)
  /\ m.to \notin occupancy(p, p.sideToMove)

NextOwnPiece == \E m \in Moves : movesOwnPiece(engine, m) /\ MakeMove(m, MaxPlies)
NextGame == \E t \in GameTexts : MakeMoveSAN(t, MaxGamePlies)

NextNonCastle == \E m \in NonCastleMoves : MakeMove(m, MaxPlies)

\* Calls of makeMove and makeMoveSAN in any order.
Spec == Init /\ [][Next]_vars

\* Calls of makeMove only.
SpecMove == Init /\ [][NextMove]_vars

\* Calls of makeMoveSAN only.
SpecSAN == Init /\ [][NextSAN]_vars

\* Calls of loadFromFEN, reset, makeMoveSAN and makeMove in any order.
SpecFEN == Init /\ [][NextFEN]_vars

\* Calls of makeMoveSAN on the JS engine and the C engine, text by text.
SpecBoth == Init /\ [][NextBoth]_vars

\* Calls of loadFromFEN with texts of seven, eight and nine ranks, of
\* makeMoveSAN and of reset.
SpecOddFEN == Init /\ [][NextOddFEN]_vars
\* Calls of makeMove that each move a piece of the side to move to a square
\* not occupied by that side.
SpecOwnPiece == Init /\ [][NextOwnPiece]_vars
\* Calls of makeMove with descriptors that carry no castle.
SpecNonCastle == Init /\ [][NextNonCastle]_vars
\* Calls of makeMoveSAN with the texts of the line e4 e5 Nf3 Nc6 Be2 Nf6 O-O
\* and two more pawn texts, in any order.
SpecGame == Init /\ [][NextGame]_vars

(***************************************************************************)
(* Properties.                                                             *)
(***************************************************************************)
Range(seq) == { seq[i] : i \in 1..Len(seq) }

\* The castling rights held: the letters of the castling field.
Rights(p) == Range(p.castling)

\* The twelve piece-sets, named by kind and colour.
Kinds == {"pawns", "knights", "bishops", "rooks", "queens", "kings"}

PieceSets == Kinds \X {WHITE, BLACK}

\* The call that led to the state reached by this step.
IsMakeMove(l) == l.op = "makeMove"

IsCastle(m) == m.castle # ""

\* C1: for every position reached by makeMove calls, loading toFEN() into a
\* fresh engine gives a position with the same Zobrist key.
C1_FenRoundTripKeepsKey ==
  getZobristKey(loadFromFEN(reset, toFEN(engine))) = getZobristKey(engine)

\* C1 witness: after two or more moves, with an en-passant square set and a
\* castling right lost, and the import has replaced the fresh position.
C1_Witness ==
  /\ plies >= 2
  /\ IsMakeMove(last)
  /\ engine.enPassant >= 0
  /\ Len(engine.castling) < 4
  /\ loadFromFEN(reset, toFEN(engine)).pawns = engine.pawns

\* A descriptor that moves a pawn of the side to move by two ranks.
IsDoublePawnAdvance(p, m) ==
  /\ ~IsCastle(m)
  /\ m.from \in p.pawns[p.sideToMove]
  /\ Abs(m.to - m.from) = 16

\* C2: after every makeMove call, castles included, the en-passant square is
\* set iff the move just applied was a pawn advance of two ranks.
C2_EnPassantIffDoubleAdvance ==
  [][IsMakeMove(last') =>
       (engine'.enPassant # -1 <=> IsDoublePawnAdvance(engine, last'.move))]_vars

\* C3: after a non-castle move whose origin holds the mover's king, the mover
\* holds neither of its castling rights and the opponent's rights are unchanged.
C3_KingMoveClearsOwnRights ==
  [][(/\ IsMakeMove(last')
      /\ ~IsCastle(last'.move)
      /\ last'.move.from \in engine.kings[engine.sideToMove])
     => /\ Rights(engine') \cap ownRights(engine.sideToMove) = {}
        /\ Rights(engine') \cap ownRights(1 - engine.sideToMove)
             = Rights(engine) \cap ownRights(1 - engine.sideToMove)]_vars

\* C4: across makeMove and makeMoveSAN calls the rights held after a call are
\* a subset of those held before it.
C4_RightsNeverReacquired ==
  [][Rights(engine') \subseteq Rights(engine)]_vars

\* C4 witness: two calls have removed all four rights.
C4_Witness ==
  /\ plies = 2
  /\ engine.castling = <<>>

\* The squares of a castle of side S: the king's start and destination, the
\* rook's home corner and destination.
KingStart(side) == IF side = WHITE THEN 4 ELSE 60

KingDest(side, castle) ==
  IF castle = "K" THEN (IF side = WHITE THEN 6 ELSE 62) ELSE (IF side = WHITE THEN 2 ELSE 58)

RookCorner(side, castle) ==
  IF castle = "K" THEN (IF side = WHITE THEN 7 ELSE 63) ELSE (IF side = WHITE THEN 0 ELSE 56)

RookDest(side, castle) ==
  IF castle = "K" THEN (IF side = WHITE THEN 5 ELSE 61) ELSE (IF side = WHITE THEN 3 ELSE 59)

\* m is the castle descriptor of the side to move of p, whose king is on its
\* start square and whose matching rook is on its home corner.
CastleApplies(p, m) ==
  /\ IsCastle(m)
  /\ m.from = KingStart(p.sideToMove)
  /\ m.to = KingDest(p.sideToMove, m.castle)
  /\ KingStart(p.sideToMove) \in p.kings[p.sideToMove]
  /\ RookCorner(p.sideToMove, m.castle) \in p.rooks[p.sideToMove]

\* What C5 says of a castle m taking p to q.
CastleEffect(p, m, q) ==
  LET side == p.sideToMove
  IN  /\ KingDest(side, m.castle) \in q.kings[side]
      /\ RookDest(side, m.castle) \in q.rooks[side]
      /\ KingStart(side) \notin q.kings[side]
      /\ RookCorner(side, m.castle) \notin q.rooks[side]
      /\ Rights(q) = Rights(p) \ ownRights(side)
      /\ \A ps \in PieceSets \ {<<"kings", side>>, <<"rooks", side>>} :
           q[ps[1]][ps[2]] = p[ps[1]][ps[2]]
      /\ q.sideToMove = 1 - side

\* C5 as stated: a castle of side S with the king on its start square and the
\* rook on its corner puts king and rook on their castled squares, empties the
\* start square and the corner, removes both rights of S only, leaves the other
\* piece-sets alone and flips the side to move.
C5_CastleEffect_Original ==
  [][(IsMakeMove(last') /\ CastleApplies(engine, last'.move))
     => CastleEffect(engine, last'.move, engine')]_vars

\* C5 amended: the same, when S has no king on the king's destination and no
\* rook on the rook's destination before the call (the castle toggles bits).
C5_CastleEffect ==
  [][(/\ IsMakeMove(last')
      /\ CastleApplies(engine, last'.move)
      /\ KingDest(engine.sideToMove, last'.move.castle) \notin engine.kings[engine.sideToMove]
      /\ RookDest(engine.sideToMove, last'.move.castle) \notin engine.rooks[engine.sideToMove])
     => CastleEffect(engine, last'.move, engine')]_vars

\* C5 witness: black has castled king-side after a white move.
C5_Witness ==
  /\ IsMakeMove(last)
  /\ last.move = Move(60, 62, "", "K", FALSE)
  /\ plies = 2
  /\ engine.kings[BLACK] = {62}
  /\ engine.rooks[BLACK] = {56, 61}
  /\ Rights(engine) \cap {"k", "q"} = {}
  /\ engine.sideToMove = WHITE

CornerRight(sq) ==
  IF sq = 0 THEN {"Q"} ELSE IF sq = 7 THEN {"K"}
  ELSE IF sq = 56 THEN {"q"} ELSE IF sq = 63 THEN {"k"} ELSE {}

C7_SideAndFullmove ==
  /\ (engine.sideToMove = WHITE <=> plies % 2 = 0)
  /\ engine.fullmove = 1 + (plies \div 2)

\* C7 witness: three calls, the last one a castle.
C7_Witness ==
  /\ plies = 3
  /\ IsMakeMove(last)
  /\ IsCastle(last.move)
  /\ engine.sideToMove = BLACK
  /\ engine.fullmove = 2

\* Each square belongs to at most one of the twelve piece-sets.
NoSquareInTwoSets(p) ==
  \A sq \in Squares : Cardinality({ ps \in PieceSets : sq \in p[ps[1]][ps[2]] }) <= 1

LandsClear(p, m) ==
  IF IsCastle(m)
  THEN /\ CastleApplies(p, m)
       /\ KingDest(p.sideToMove, m.castle) \notin allOcc(p)
       /\ RookDest(p.sideToMove, m.castle) \notin allOcc(p)
  ELSE m.to \notin occupancy(p, p.sideToMove)

FragmentMatches(sq, ps) ==
  /\ ps.disambFile # "" => sq % 8 = fileIndex(ps.disambFile)
  /\ ps.disambRank # "" => sq \div 8 = digitValue(ps.disambRank) - 1

\* The candidates that agree with the fragment.
FilteredCandidates(p, ps) == { sq \in sanCandidates(p, ps) : FragmentMatches(sq, ps) }

\* The step is a makeMoveSAN call on a text that parses to a non-castle move.
ResolvesPieceText(l) ==
  /\ l.op = "makeMoveSAN"
  /\ parseSAN(l.san) # null
  /\ parseSAN(l.san).castle = ""

SetOfLetter(letter) ==
  IF letter = "N" THEN "knights" ELSE IF letter = "B" THEN "bishops"
  ELSE IF letter = "R" THEN "rooks" ELSE IF letter = "Q" THEN "queens"
  ELSE IF letter = "K" THEN "kings" ELSE "pawns"

\* The squares strictly between a and b on a common rank, file or diagonal.
Between(a, b) ==
  LET df == (b % 8) - (a % 8)
      dr == (b \div 8) - (a \div 8)
      n == IF Abs(df) > Abs(dr) THEN Abs(df) ELSE Abs(dr)
  IN  { ((a \div 8) + ((k * dr) \div n)) * 8 + ((a % 8) + ((k * df) \div n)) : k \in 1..(n - 1) }

\* A piece of the kind of letter (a pawn capturing when there is none) of
\* colour side standing on a can go to b over the occupancy occ.
CanReach(letter, side, a, b, occ) ==
  LET df == (b % 8) - (a % 8)
      dr == (b \div 8) - (a \div 8)
      straight == a # b /\ (df = 0 \/ dr = 0) /\ Between(a, b) \cap occ = {}
      diagonal == a # b /\ Abs(df) = Abs(dr) /\ Between(a, b) \cap occ = {}
  IN  IF letter = "N" THEN {Abs(df), Abs(dr)} = {1, 2}
      ELSE IF letter = "K" THEN a # b /\ Abs(df) <= 1 /\ Abs(dr) <= 1
      ELSE IF letter = "R" THEN straight
      ELSE IF letter = "B" THEN diagonal
      ELSE IF letter = "Q" THEN straight \/ diagonal
      ELSE Abs(df) = 1 /\ dr = (IF side = WHITE THEN 1 ELSE -1)

\* The pieces of the named kind of the side to move that can reach the target.
Reachers(p, ps) ==
  { a \in p[SetOfLetter(ps.piece)][p.sideToMove] \cap Squares :
      CanReach(ps.piece, p.sideToMove, a, ps.targetIndex, allOcc(p)) }

\* C10: when two or more pieces of the named kind of the side to move can reach
\* the destination and the file or rank fragment of the text matches exactly
\* one of them, resolveSAN returns that piece's square as origin.
C10_DisambiguationPicksOrigin ==
  [][ResolvesPieceText(last')
     => LET ps == parseSAN(last'.san)
            reach == Reachers(engine, ps)
            match == { a \in reach : FragmentMatches(a, ps) }
        IN  (/\ Cardinality(reach) >= 2
             /\ (ps.disambFile # "" \/ ps.disambRank # "")
             /\ (ps.piece = "" => ps.disambFile # "")
             /\ Cardinality(match) = 1)
            => (last'.move # null /\ last'.move.from \in match)]_vars

\* C10 witness: with white knights on b1 and f3, "Nbd2" has moved the one on b1.
C10_Witness ==
  /\ last.op = "makeMoveSAN"
  /\ last.san = <<"N", "b", "d", "2">>
  /\ last.ok
  /\ last.move.from = 1
  /\ engine.knights[WHITE] = {11, 21}

\* The text without its last character.
Front(t) == SubSeq(t, 1, Len(t) - 1)

\* C11: when a text t resolves, t followed by "+" or "#" resolves to the same
\* descriptor and makeMoveSAN applies the same move.
C11_CheckMarksIgnored ==
  [][(/\ last'.op = "makeMoveSAN"
      /\ last'.san # <<>>
      /\ last'.san[Len(last'.san)] \in {"+", "#"}
      /\ resolveSAN(engine, Front(last'.san)) # null)
     => /\ last'.move = resolveSAN(engine, Front(last'.san))
        /\ engine' = makeMoveSAN(engine, Front(last'.san))]_vars

\* A move descriptor as resolveSAN builds it.
IsDescriptor(m) ==
  /\ DOMAIN m = {"from", "to", "promotion", "castle", "enpassant"}
  /\ m.from \in Squares
  /\ m.to \in Squares
  /\ m.promotion \in {"", "q", "r", "b", "n"}
  /\ m.castle \in {"", "K", "Q"}
  /\ m.enpassant \in BOOLEAN

\* C12: resolveSAN gives null or a descriptor for every text; makeMoveSAN
\* returns false exactly when it gives null, and then every field of the
\* position is as before the call.
C12_FailureLeavesPosition ==
  [][last'.op = "makeMoveSAN"
     => /\ last'.move = resolveSAN(engine, last'.san)
        /\ last'.move = null \/ IsDescriptor(last'.move)
        /\ last'.ok <=> last'.move # null
        /\ ~last'.ok => engine' = engine]_vars

\* C12 witness: one call has succeeded and the next, on "invalid", has failed:
\* black is still to move in the first full move.
C12_Witness ==
  /\ last.op = "makeMoveSAN"
  /\ last.san = <<"i", "n", "v", "a", "l", "i", "d">>
  /\ ~last.ok
  /\ last.move = null
  /\ plies = 2
  /\ engine.sideToMove = BLACK
  /\ engine.fullmove = 1

\* The step applies a move descriptor, given as such or resolved from a text.
AppliesMove(l) == l.op \in {"makeMove", "makeMoveSAN"} /\ l.move # null

\* The square behind sq for the side to move of p: where a pawn that has just
\* passed over sq stands.
Behind(p, sq) == IF p.sideToMove = WHITE THEN sq - 8 ELSE sq + 8

\* The call before was a two-square pawn advance over the empty square sq, and
\* this call moves a pawn of the side to move diagonally onto sq, written in
\* capture form or as a descriptor with the en-passant flag.
IsEnPassantCapture(before, p, l) ==
  /\ AppliesMove(before)
  /\ AppliesMove(l)
  /\ ~IsCastle(before.move)
  /\ ~IsCastle(l.move)
  /\ Abs(before.move.to - before.move.from) = 16
  /\ before.move.to = Behind(p, l.move.to)
  /\ before.move.to \in p.pawns[1 - p.sideToMove]
  /\ p.enPassant = l.move.to
  /\ l.move.to \notin allOcc(p)
  /\ l.move.from \in p.pawns[p.sideToMove]
  /\ Abs((l.move.from % 8) - (l.move.to % 8)) = 1
  /\ l.move.from \div 8 = before.move.to \div 8
  /\ \/ l.op = "makeMove" /\ l.move.enpassant
     \/ l.op = "makeMoveSAN" /\ parseSAN(l.san).piece = "" /\ parseSAN(l.san).disambFile # ""

\* C13: after a two-square pawn advance followed at once by an enemy pawn's
\* diagonal move onto the passed-over square, the advanced pawn is gone from
\* its side's pawn set, the capturing pawn stands on the passed-over square,
\* and the exported FEN has no pawn of the advanced side on the pawn's square.
C13_EnPassantRemovesPawn ==
  [][IsEnPassantCapture(last, engine, last')
     => LET side == engine.sideToMove
            passed == last'.move.to
            advanced == last.move.to
        IN  /\ advanced \notin engine'.pawns[1 - side]
            /\ passed \in engine'.pawns[side]
            /\ last'.move.from \notin engine'.pawns[side]
            /\ advanced \notin loadFromFEN(reset, toFEN(engine')).pawns[1 - side]
            /\ advanced \notin allOcc(loadFromFEN(reset, toFEN(engine')))]_vars

\* C13 witness: from the imported position with a white pawn on e5, black has
\* played d5 and white has answered exd6.
C13_Witness ==
  /\ plies = 3
  /\ last.op = "makeMoveSAN"
  /\ last.san = <<"e", "x", "d", "6">>
  /\ last.ok
  /\ last.move.enpassant
  /\ 43 \in engine.pawns[WHITE]
  /\ 35 \notin engine.pawns[BLACK]
  /\ engine.pawns[BLACK] = (48..55) \ {51}

\* The piece-set named by a promotion letter of a descriptor.
SetOfPromotion(letter) ==
  CASE letter = "q" -> "queens"
    [] letter = "r" -> "rooks"
    [] letter = "b" -> "bishops"
    [] letter = "n" -> "knights"

\* The call moves a pawn of the side to move of p to its last rank with a
\* promotion letter, as a descriptor or as a text ending in "=" and the letter.
IsPromotion(p, l) ==
  /\ AppliesMove(l)
  /\ ~IsCastle(l.move)
  /\ l.move.promotion \in {"q", "r", "b", "n"}
  /\ l.move.from \in p.pawns[p.sideToMove]
  /\ l.move.to \div 8 = (IF p.sideToMove = WHITE THEN 7 ELSE 0)
  /\ l.op = "makeMoveSAN"
     => /\ Len(l.san) >= 4
        /\ l.san[Len(l.san) - 1] = "="
        /\ SetOfLetter(l.san[Len(l.san)]) = SetOfPromotion(l.move.promotion)

\* C14: a pawn move to the last rank with promotion letter Q, R, B or N leaves
\* no pawn of the mover on the destination square, puts the destination in the
\* mover's queen, rook, bishop or knight set, and adds no square to any
\* piece-set of the other colour, whose sets do not contain the destination.
C14_PromotionSetsPiece ==
  [][IsPromotion(engine, last')
     => LET side == engine.sideToMove
            enemy == 1 - side
            dest == last'.move.to
        IN  /\ dest \notin engine'.pawns[side]
            /\ dest \in engine'[SetOfPromotion(last'.move.promotion)][side]
            /\ last'.move.from \notin engine'.pawns[side]
            /\ \A kind \in Kinds :
                 /\ engine'[kind][enemy] \subseteq engine[kind][enemy]
                 /\ dest \notin engine'[kind][enemy]]_vars

\* C14 witness: from the imported position with pawns on b7 and b2, white has
\* played bxa8=N and black has answered b1=R.
C14_Witness ==
  /\ plies = 3
  /\ last.op = "makeMoveSAN"
  /\ last.san = <<"b", "1", "=", "R">>
  /\ last.ok
  /\ 1 \in engine.rooks[BLACK]
  /\ 1 \notin engine.pawns[BLACK]
  /\ 56 \in engine.knights[WHITE]
  /\ 56 \notin engine.rooks[BLACK]
  /\ engine.pawns[WHITE] = {}

\* C14 witness, descriptor form: white has played the descriptor b7-b8 with
\* promotion "q".
C14_WitnessDescriptor ==
  /\ last.op = "makeMove"
  /\ last.move = Move(49, 57, "q", "", FALSE)
  /\ 57 \in engine.queens[WHITE]
  /\ 49 \notin engine.pawns[WHITE]

\* The sequence s without its i-th element.
Without(s, i) == SubSeq(s, 1, i - 1) \o SubSeq(s, i + 1, Len(s))

\* All orderings of the elements of s.
RECURSIVE Orderings(_)
Orderings(s) ==
  IF s = <<>> THEN {<<>>}
  ELSE UNION { { <<s[i]>> \o t : t \in Orderings(Without(s, i)) } : i \in 1..Len(s) }

\* The en-passant file of p, or -1 when there is no en-passant square.
EnPassantFile(p) == IF p.enPassant >= 0 THEN p.enPassant % 8 ELSE -1

\* p and q agree on piece placement, side to move, the set of castling
\* rights and the en-passant file.
Agree(p, q) ==
  /\ \A kind \in Kinds : p[kind] = q[kind]
  /\ p.sideToMove = q.sideToMove
  /\ Rights(p) = Rights(q)
  /\ EnPassantFile(p) = EnPassantFile(q)

\* Positions that differ from p in what the key must not depend on: the order
\* of the castling letters, the clocks, and the rank of the en-passant square.
Disguises(p) ==
  { [p EXCEPT !.castling = c, !.halfmove = h, !.fullmove = f, !.enPassant = e] :
      c \in Orderings(p.castling), h \in {p.halfmove, 3}, f \in {p.fullmove, 7},
      e \in {p.enPassant, IF p.enPassant >= 0 THEN (p.enPassant + 24) % 64 ELSE -1} }

\* Positions built by FEN import, over the initial position and over p itself.
Imports(p) ==
  { loadFromFEN(q, f) : q \in {reset, p}, f \in FENTexts \cup {toFEN(p)} }

\* C15: the key is a function of piece placement, side to move, set of
\* castling rights and en-passant file: a position reached by any calls has
\* the key of every position that agrees with it on these four, whatever the
\* order of the castling letters, the clocks, and whether the other position
\* was imported from a FEN text.
C15_KeyDependsOnFourFields ==
  \A q \in Disguises(engine) \cup Imports(engine) :
    Agree(engine, q) => getZobristKey(q) = getZobristKey(engine)

\* C15 witness: 1. e4 has been replayed from the initial position; the FEN
\* import with castling letters "qkQK" and clocks 3 and 7 agrees with it on the
\* four fields and differs in the castling string and the fullmove number.
C15_Witness ==
  /\ plies = 1
  /\ last.op \in {"makeMove", "makeMoveSAN"}
  /\ last.ok
  /\ engine.enPassant = 20
  /\ Agree(engine, loadFromFEN(reset, FenAfterE4))
  /\ loadFromFEN(reset, FenAfterE4).castling = <<"q", "k", "Q", "K">>
  /\ engine.castling = <<"K", "Q", "k", "q">>
  /\ loadFromFEN(reset, FenAfterE4).fullmove = 7
  /\ engine.fullmove = 1
  /\ getZobristKey(engine) # TypeError

\* C16: the 64-bit key after makeMove differs from the key before it, for
\* every descriptor applied to every position reached.
C16_MoveChangesKey ==
  [][last'.op = "makeMove"
     => zobristValue(getZobristKey(engine')) # zobristValue(getZobristKey(engine))]_vars

\* C16 witness: a descriptor naming two empty squares has been applied to the
\* initial position; the placement is unchanged and the key is another one.
C16_Witness ==
  /\ plies = 1
  /\ last.op = "makeMove"
  /\ last.move = Move(28, 35, "", "", FALSE)
  /\ \A kind \in Kinds : engine[kind] = reset[kind]
  /\ engine.sideToMove = BLACK
  /\ zobristValue(getZobristKey(engine)) # zobristValue(getZobristKey(reset))

\* The squares of a rank (0 for the first) and of a rank restricted to files.
RankSquares(r) == { sq \in Squares : sq \div 8 = r }

OnFiles(r, files) == { sq \in RankSquares(r) : sq % 8 \in files }

\* The standard initial layout, field by field.
IsStandardInitial(p) ==
  /\ p.pawns[WHITE] = RankSquares(1) /\ p.pawns[BLACK] = RankSquares(6)
  /\ p.rooks[WHITE] = OnFiles(0, {0, 7}) /\ p.rooks[BLACK] = OnFiles(7, {0, 7})
  /\ p.knights[WHITE] = OnFiles(0, {1, 6}) /\ p.knights[BLACK] = OnFiles(7, {1, 6})
  /\ p.bishops[WHITE] = OnFiles(0, {2, 5}) /\ p.bishops[BLACK] = OnFiles(7, {2, 5})
  /\ p.queens[WHITE] = OnFiles(0, {3}) /\ p.queens[BLACK] = OnFiles(7, {3})
  /\ p.kings[WHITE] = OnFiles(0, {4}) /\ p.kings[BLACK] = OnFiles(7, {4})
  /\ p.sideToMove = WHITE
  /\ p.castling = <<"K", "Q", "k", "q">>
  /\ p.enPassant = -1
  /\ p.halfmove = 0
  /\ p.fullmove = 1
  /\ DOMAIN p = Kinds \cup {"sideToMove", "castling", "enPassant", "halfmove", "fullmove"}

\* C17: after any calls of makeMove, makeMoveSAN and loadFromFEN, reset()
\* leaves the standard initial piece-sets, white to move, castling KQkq, no
\* en-passant square, halfmove 0 and fullmove 1: the position of a newly
\* constructed engine, with its FEN and its key.
C17_ResetRestoresInitial ==
  [][last'.op = "reset"
     => /\ IsStandardInitial(engine')
        /\ toFEN(engine') = FenStart
        /\ getZobristKey(engine') = getZobristKey(loadFromFEN(engine, FenStart))
        /\ zobristValue(getZobristKey(engine')) = zobristValue(getZobristKey(reset))]_vars

\* C17 witness: reset() was the third call, after calls that import and move.
C17_Witness ==
  /\ plies = 3
  /\ last.op = "reset"
  /\ IsStandardInitial(engine)
  /\ toFEN(engine) = FenStart

\* A position with no piece and other metadata than any import sets.
Blank ==
  [ pawns |-> both({}, {}), knights |-> both({}, {}), bishops |-> both({}, {}),
    rooks |-> both({}, {}), queens |-> both({}, {}), kings |-> both({}, {}),
    sideToMove |-> BLACK, castling |-> <<"Q">>, enPassant |-> 44,
    halfmove |-> 9, fullmove |-> 9 ]

\* Other prior positions than p: the initial one, the blank one, the imports
\* of the FEN texts, and p after one more move.
OtherPriors(p) ==
  {reset, Blank}
    \cup { loadFromFEN(reset, g) : g \in FENTexts }
    \cup { makeMove(p, m) : m \in FenMoves }

\* C18: importing a well-formed six-field FEN text gives the same twelve
\* piece-sets, side to move, castling rights, en-passant square, halfmove and
\* fullmove whatever the position imported over.
C18_ImportReplacesAll ==
  [][last'.op = "loadFromFEN"
     => \A prior \in OtherPriors(engine) : loadFromFEN(prior, last'.fen) = engine']_vars

\* C18 witness: the promotion position has been imported as the third call;
\* nothing but its six pieces is on the board.
C18_Witness ==
  /\ plies = 3
  /\ last.op = "loadFromFEN"
  /\ last.fen = FenPromotion
  /\ allOcc(engine) = {0, 4, 9, 49, 56, 60}
  /\ engine.pawns = both({49}, {9})
  /\ engine.castling = <<>>
  /\ engine.halfmove = 5
  /\ engine.fullmove = 40

\* The castling field of a FEN text: its third field.
CastlingField(fen) == splitBlanks(trim(fen))[3]

\* The letters of a castling field; none for "-".
FieldLetters(field) == IF field = <<"-">> THEN <<>> ELSE field

\* s is t with some elements left out, the others in the order of t.
RECURSIVE IsSubsequence(_, _)
IsSubsequence(s, t) ==
  IF s = <<>> THEN TRUE
  ELSE IF t = <<>> THEN FALSE
  ELSE IF Head(s) = Head(t) THEN IsSubsequence(Tail(s), Tail(t))
  ELSE IsSubsequence(s, Tail(t))

\* C19 as stated: in every state, also after an import whose castling letters
\* are in another order, toFEN writes the held rights in the order K, Q, k, q,
\* each at most once, or "-" when none is held.
C19_CastlingCanonical_Original ==
  LET field == CastlingField(toFEN(engine))
  IN  /\ (field = <<"-">>) <=> (engine.castling = <<>>)
      /\ IsSubsequence(FieldLetters(field), <<"K", "Q", "k", "q">>)
      /\ Range(FieldLetters(field)) = Rights(engine)

\* C19 amended: toFEN writes the held rights in the order in which they are
\* stored, or "-" when none is held: K, Q, k, q for a new or reset engine, the
\* order of the text after loadFromFEN, and after a move or a failed call the
\* letters written before it without those the move removed, in the same order.
C19_CastlingInStoredOrder ==
  /\ CastlingField(toFEN(engine)) = <<"K", "Q", "k", "q">>
  /\ [][\A fieldBefore \in {CastlingField(toFEN(engine))},
           fieldAfter \in {CastlingField(toFEN(engine'))} :
          /\ (fieldAfter = <<"-">>) <=> (engine'.castling = <<>>)
          /\ Range(FieldLetters(fieldAfter)) = Rights(engine')
          /\ last'.op = "reset" => fieldAfter = <<"K", "Q", "k", "q">>
          /\ last'.op = "loadFromFEN" => fieldAfter = CastlingField(last'.fen)
          /\ last'.op \in {"makeMove", "makeMoveSAN"}
               => IsSubsequence(FieldLetters(fieldAfter), FieldLetters(fieldBefore))]_vars

\* C19 witness: after the import of the text with castling field "qkQK", black
\* has castled; toFEN writes "QK".
C19_Witness ==
  /\ plies = 2
  /\ last.op = "makeMoveSAN"
  /\ last.san = <<"O", "-", "O">>
  /\ last.ok
  /\ engine.sideToMove = WHITE
  /\ CastlingField(toFEN(engine)) = <<"Q", "K">>

\* C20: after every text given to both engines from the initial position, the
\* JS engine and the C engine have returned the same flag and export the same
\* FEN string.
C20_EnginesAgree ==
  last.op = "makeMoveSAN" /\ plies > 0
    => /\ last.ok = native.ok
       /\ toFEN(engine) = board_to_fen(native.board)

\* The engine after the texts of a line were given to makeMoveSAN one by one,
\* starting from position p.
RECURSIVE Played(_, _)
Played(p, texts) ==
  IF texts = <<>> THEN p
  ELSE Played(makeMoveSAN(p, Head(texts)), Tail(texts))

\* The engine after makeMoveSAN of e4, e5, Nf3, Nc6 from the initial position.
AfterBaseMoves == Played(reset, BaseTexts)

\* The first four fields of an exported FEN.
FenFields(fen) == SubSeq(splitBlanks(fen), 1, 4)

\* C21 as stated: after e4 e5 Nf3 Nc6 from the initial position, toFEN gives
\* the board rnbqkbnr/pppp1ppp/2n5/4p3/4P3/5N2/PPPP1PPP/RNBQKBR1, side b,
\* castling KQkq and en-passant "-".
C21_BaseMoves_Original ==
  (plies = 4 /\ engine = AfterBaseMoves)
    => FenFields(toFEN(engine)) =
         << << "r", "n", "b", "q", "k", "b", "n", "r", "/", "p", "p", "p", "p",
               "1", "p", "p", "p", "/", "2", "n", "5", "/", "4", "p", "3", "/",
               "4", "P", "3", "/", "5", "N", "2", "/", "P", "P", "P", "P", "1",
               "P", "P", "P", "/", "R", "N", "B", "Q", "K", "B", "R", "1" >>,
            <<"b">>, <<"K", "Q", "k", "q">>, <<"-">> >>

\* C21 amended: after e4 e5 Nf3 Nc6 from the initial position, toFEN gives
\* the board r1bqkbnr/pppp1ppp/2n5/4p3/4P3/5N2/PPPP1PPP/RNBQKB1R (the knights
\* have left b8 and g1), side w, castling KQkq and en-passant "-".
C21_BaseMoves ==
  (plies = 4 /\ engine = AfterBaseMoves)
    => FenFields(toFEN(engine)) =
         << << "r", "1", "b", "q", "k", "b", "n", "r", "/", "p", "p", "p", "p",
               "1", "p", "p", "p", "/", "2", "n", "5", "/", "4", "p", "3", "/",
               "4", "P", "3", "/", "5", "N", "2", "/", "P", "P", "P", "P", "1",
               "P", "P", "P", "/", "R", "N", "B", "Q", "K", "B", "1", "R" >>,
            <<"w">>, <<"K", "Q", "k", "q">>, <<"-">> >>

\* C21 witness: the fourth call was makeMoveSAN("Nc6") and the line e4 e5 Nf3
\* Nc6 has been played: pawns on e4 and e5, knights on f3 and c6.
C21_Witness ==
  /\ plies = 4
  /\ last.op = "makeMoveSAN"
  /\ last.san = <<"N", "c", "6">>
  /\ last.ok
  /\ engine = AfterBaseMoves
  /\ 28 \in engine.pawns[WHITE]
  /\ 36 \in engine.pawns[BLACK]
  /\ 21 \in engine.knights[WHITE]
  /\ 42 \in engine.knights[BLACK]

\* No square is in both a white piece-set and a black piece-set.
ColoursApart(p) == occupancy(p, WHITE) \cap occupancy(p, BLACK) = {}

\* C22: in every state reached from the initial position by non-castle
\* makeMove calls (origin and destination in 0..63, descriptors otherwise
\* arbitrary) no square is in both a white and a black piece-set, and each
\* call leaves its destination in none of the six piece-sets of the side that
\* did not move.
C22_ColoursApart ==
  /\ [](ColoursApart(engine))
  /\ [][last'.op = "makeMove"
         => last'.move.to \notin occupancy(engine', 1 - engine.sideToMove)]_vars

\* C22 witness: the third call, makeMove of e4xd5, took the black pawn on d5:
\* the white pawn stands there and no black piece does.
C22_Witness ==
  /\ plies = 3
  /\ last.op = "makeMove"
  /\ last.move = Move(28, 35, "", "", FALSE)
  /\ 35 \in engine.pawns[WHITE]
  /\ 35 \notin occupancy(engine, BLACK)
  /\ 51 \notin engine.pawns[BLACK]
  /\ ColoursApart(engine)

\* What a text says before its destination square: the trimmed text without
\* a promotion suffix "=X", without its last two characters and without an
\* "x" at the end of what is left.
TextBody(t) ==
  LET s == trim(t)
      n == IF Len(s) >= 2 /\ s[Len(s) - 1] = "=" THEN Len(s) - 2 ELSE Len(s)
      b == IF n >= 2 THEN SubSeq(s, 1, n - 2) ELSE <<>>
  IN  IF b # <<>> /\ b[Len(b)] = "x" THEN Front(b) ELSE b

\* The text names a piece letter.
NamesPiece(t) == TextBody(t) # <<>> /\ TextBody(t)[1] \in PieceLetters

\* The text carries a file fragment after the piece letter, if any.
HasFileFragment(t) ==
  LET rest == IF NamesPiece(t) THEN Tail(TextBody(t)) ELSE TextBody(t)
  IN  rest # <<>> /\ isFileChar(rest[1])

\* C23: a descriptor returned by resolveSAN carries the en-passant flag iff
\* the text names no piece letter, has a file fragment, and the destination is
\* unoccupied in the position resolveSAN was called in.
C23_EnPassantFlag ==
  [][(last'.op = "makeMoveSAN" /\ last'.move # null)
       => (last'.move.enpassant
             <=> /\ ~NamesPiece(last'.san)
                 /\ HasFileFragment(last'.san)
                 /\ last'.move.to \notin allOcc(engine))]_vars

\* C23 witness: after e4 and a black move, "exd5" was resolved with d5 empty
\* and the descriptor e4-d5 carried the flag.
C23_Witness ==
  /\ plies = 3
  /\ last.op = "makeMoveSAN"
  /\ last.san = <<"e", "x", "d", "5">>
  /\ last.move = Move(28, 35, "", "", TRUE)
  /\ 51 \in engine.pawns[BLACK]

\* C23, the other side: "exd5" resolved with a black pawn on d5 carried no flag.
C23_WitnessCapture ==
  /\ plies = 3
  /\ last.op = "makeMoveSAN"
  /\ last.san = <<"e", "x", "d", "5">>
  /\ last.move = Move(28, 35, "", "", FALSE)
  /\ 51 \notin engine.pawns[BLACK]

\* The wing a castle literal names, "" for any other text.
WingOf(t) ==
  IF t = <<"O", "-", "O">> THEN "K"
  ELSE IF t = <<"O", "-", "O", "-", "O">> THEN "Q"
  ELSE ""

\* C24: in every position, whatever stands on the board and whatever rights
\* are held, resolveSAN("O-O") returns the king-side castle descriptor e1-g1
\* (white to move) or e8-g8 (black to move) and resolveSAN("O-O-O") the
\* queen-side descriptor to c1 or c8; neither returns null.
C24_CastleAlwaysResolves ==
  [][(last'.op = "makeMoveSAN" /\ WingOf(last'.san) # "")
       => /\ last'.ok
          /\ last'.move =
               Move(IF engine.sideToMove = WHITE THEN 4 ELSE 60,
                    IF engine.sideToMove = WHITE
                    THEN (IF WingOf(last'.san) = "K" THEN 6 ELSE 2)
                    ELSE (IF WingOf(last'.san) = "K" THEN 62 ELSE 58),
                    "", WingOf(last'.san), FALSE)]_vars

\* C24 witness: white played Ke2, black moved, and "O-O" still resolved to
\* e1-g1 with the white king away from e1: the king set then holds e2 and
\* the two toggled squares.
C24_Witness ==
  /\ plies = 3
  /\ last.op = "makeMoveSAN"
  /\ last.san = <<"O", "-", "O">>
  /\ last.move = Move(4, 6, "", "K", FALSE)
  /\ 12 \in engine.kings[WHITE]
  /\ engine.sideToMove = BLACK

\* C24, queen side with black to move: "O-O-O" resolved to e8-c8.
C24_WitnessBlackQueenSide ==
  /\ last.op = "makeMoveSAN"
  /\ last.san = <<"O", "-", "O", "-", "O">>
  /\ last.move = Move(60, 58, "", "Q", FALSE)
  /\ engine.sideToMove = WHITE

\* The square a text of the form [a-h][1-8] names, -1 for any other text.
PushTarget(t) ==
  IF Len(t) = 2 /\ isFileChar(t[1]) /\ isRankChar(t[2])
  THEN (digitValue(t[2]) - 1) * 8 + fileIndex(t[1])
  ELSE -1

\* The origin C25 gives for a pawn text without disambiguation in position p
\* with destination to: one rank behind, else two ranks behind, else -1.
PushOrigin(p, to) ==
  LET side == p.sideToMove
      one == IF side = WHITE THEN to - 8 ELSE to + 8
      two == IF side = WHITE THEN to - 16 ELSE to + 16
  IN  IF one \in p.pawns[side] THEN one
      ELSE IF /\ to \div 8 = (IF side = WHITE THEN 3 ELSE 4)
              /\ two \in p.pawns[side]
              /\ one \notin allOcc(p)
           THEN two
      ELSE -1

\* C25: for pawn text with no disambiguation resolveSAN returns as origin the
\* square one rank behind the destination when the side to move has a pawn
\* there; otherwise the square two ranks behind, only if the destination is on
\* rank 4 (white) or rank 5 (black), the side to move has a pawn two ranks
\* behind and the square between is empty; otherwise it returns null.
C25_PawnPushOrigin ==
  [][(last'.op = "makeMoveSAN" /\ PushTarget(last'.san) >= 0)
       => \A origin \in {PushOrigin(engine, PushTarget(last'.san))} :
            IF origin < 0 THEN last'.move = null
            ELSE /\ last'.move # null
                 /\ last'.move.from = origin
                 /\ last'.move.to = PushTarget(last'.san)]_vars

\* C25 witness, two ranks: the first call "e4" resolved to e2-e4.
C25_Witness ==
  /\ plies = 1
  /\ last.op = "makeMoveSAN"
  /\ last.san = <<"e", "4">>
  /\ last.move = Move(12, 28, "", "", FALSE)
  /\ engine.pawns[WHITE] = (8..15 \ {12}) \cup {28}

\* C25 witness, one rank: with a white pawn on e4, "e5" resolved to e4-e5.
C25_WitnessOneRank ==
  /\ last.op = "makeMoveSAN"
  /\ last.san = <<"e", "5">>
  /\ last.move = Move(28, 36, "", "", FALSE)

\* C25 witness, blocked: with the knight on f3 and the pawn on f2, "f4" did
\* not resolve.
C25_WitnessBlocked ==
  /\ last.op = "makeMoveSAN"
  /\ last.san = <<"f", "4">>
  /\ last.move = null
  /\ 13 \in engine.pawns[WHITE]
  /\ 21 \in engine.knights[WHITE]
  /\ engine.sideToMove = WHITE

\* C25 witness, wrong rank: with a white pawn on e4 and e5 empty, "e6" did
\* not resolve for white.
C25_WitnessWrongRank ==
  /\ last.op = "makeMoveSAN"
  /\ last.san = <<"e", "6">>
  /\ last.move = null
  /\ 28 \in engine.pawns[WHITE]
  /\ 36 \notin allOcc(engine)
  /\ engine.sideToMove = WHITE

\* The occupancies that lie within the fourth rank or within the diagonal
\* a1-h8: every pattern of blockers along a line of eight squares.
LineOccupancies == SUBSET (24..31) \cup SUBSET { 9 * i : i \in 0..7 }

\* Over the occupancy occ, rook rays and bishop rays reach b from a exactly
\* when they reach a from b: whenever b is reached from a, a is reached from
\* b, for all a and b (a square is never in its own attack set).
RaysSymmetric(occ) ==
  \A rookFrom \in {[a \in Squares |-> getRookAttacks(a, occ)]},
     bishopFrom \in {[a \in Squares |-> getBishopAttacks(a, occ)]} :
    \A a \in Squares :
      /\ a \notin rookFrom[a] \cup bishopFrom[a]
      /\ \A b \in rookFrom[a] : a \in rookFrom[b]
      /\ \A b \in bishopFrom[a] : a \in bishopFrom[b]

\* The attack set of a rook, bishop or queen standing on sq.
SliderAttacks(letter, sq, occ) ==
  IF letter = "R" THEN getRookAttacks(sq, occ)
  ELSE IF letter = "B" THEN getBishopAttacks(sq, occ)
  ELSE getRookAttacks(sq, occ) \cup getBishopAttacks(sq, occ)

\* The pieces of the side to move, of the kind of letter, whose own attack
\* set contains the square to.
OwnAttackers(p, letter, to) ==
  { sq \in p[SetOfLetter(letter)][p.sideToMove] : to \in SliderAttacks(letter, sq, allOcc(p)) }

\* The text names a rook, a bishop or a queen and parses.
IsSliderText(t) == t # <<>> /\ t[1] \in {"R", "B", "Q"} /\ parseSAN(t) # null

\* C26: for every occupancy and any two distinct squares a and b, b is in
\* getRookAttacks(a, occ) iff a is in getRookAttacks(b, occ), and likewise for
\* getBishopAttacks (checked over the occupancy of every reachable position
\* and, once, over every pattern of blockers along a rank and a diagonal);
\* hence the candidates resolveSAN computes from the destination are exactly
\* the rooks, bishops or queens of the side to move whose own attack set
\* contains the destination.
C26_RaysSymmetric ==
  /\ [](RaysSymmetric(allOcc(engine)))
  /\ [](last.op = "new" => \A occ \in LineOccupancies : RaysSymmetric(occ))
  /\ [][(last'.op = "makeMoveSAN" /\ IsSliderText(last'.san))
          => \A ps \in {parseSAN(last'.san)} :
               sanCandidates(engine, ps) = OwnAttackers(engine, ps.piece, ps.targetIndex)]_vars

\* C26 witness: after e4 and a black move, "Bc4" was resolved: the bishop on
\* f1 was the one candidate, found along the diagonal c4-f1 through e2 and d3.
C26_Witness ==
  /\ plies = 3
  /\ last.op = "makeMoveSAN"
  /\ last.san = <<"B", "c", "4">>
  /\ last.move = Move(5, 26, "", "", FALSE)
  /\ 26 \in engine.bishops[WHITE]
  /\ 5 \in getBishopAttacks(26, allOcc(engine) \ {26})

\* The ranks of a FEN text: the parts of its first field between "/".
RanksOf(fen) == splitOn(splitBlanks(trim(fen))[1], "/", <<>>, <<>>)

\* The first field of a FEN text names no piece: digits and "/" only.
NamesNoPiece(fen) ==
  \A i \in 1..Len(splitBlanks(trim(fen))[1]) :
    splitBlanks(trim(fen))[1][i] = "/" \/ isDigit(splitBlanks(trim(fen))[1][i])

\* C27 as stated: a FEN text whose placement field has another number of ranks
\* than eight is still imported: after loadFromFEN of the empty board written
\* with seven or nine ranks, "b - - 4 9", no piece of the prior position is
\* left and side, castling, en-passant square and counters are those of the
\* text.
C27_OddRankCountImported ==
  (/\ last.op = "loadFromFEN"
   /\ Len(RanksOf(last.fen)) # 8
   /\ NamesNoPiece(last.fen))
    => /\ allOcc(engine) = {}
       /\ engine.sideToMove = BLACK
       /\ engine.castling = <<>>
       /\ engine.enPassant = -1
       /\ engine.halfmove = 4
       /\ engine.fullmove = 9

\* What the code does with such a text: the call returns with the position
\* it found.
C27_OddRankCountRejected ==
  [][(last'.op = "loadFromFEN" /\ Len(RanksOf(last'.fen)) # 8)
       => engine' = engine]_vars

\* The seven-rank text was given to loadFromFEN on the initial position, which
\* is still there.
C27_RejectedReached ==
  /\ plies = 1
  /\ last.op = "loadFromFEN"
  /\ last.fen = FenSevenRanks
  /\ engine = reset

\* The piece-set a text names: that of its piece letter, the pawns without one.
KindOfText(t) == SetOfLetter(IF NamesPiece(t) THEN TextBody(t)[1] ELSE "")

\* Some piece of the side to move of p, of the kind the parsed text names, can
\* go to the destination: a pawn by an advance when the text has no file
\* fragment, a pawn by a capture when it has one, a piece by its own move.
MoverCould(p, ps) ==
  IF ps.piece = "" /\ ps.disambFile = ""
  THEN PushOrigin(p, ps.targetIndex) >= 0
  ELSE Reachers(p, ps) # {}

\* The position p with the other side to move.
OtherToMove(p) == [p EXCEPT !.sideToMove = 1 - @]

\* C28: whenever resolveSAN returns a non-castle descriptor, its origin is in
\* the piece-set, of the side to move, of the kind the text names (the pawns
\* when it names none); text that only pieces of the side not to move could
\* satisfy returns null.
C28_OriginIsMovers ==
  [][ResolvesPieceText(last')
       => \A ps \in {parseSAN(last'.san)} :
            /\ last'.move # null
                 => last'.move.from \in engine[KindOfText(last'.san)][engine.sideToMove]
            /\ (MoverCould(OtherToMove(engine), ps) /\ ~MoverCould(engine, ps))
                 => last'.move = null]_vars

\* C28 witness: "e5" was given first, with white to move; only the black pawn
\* on e7 could play it, and it did not resolve.
C28_Witness ==
  /\ plies = 1
  /\ last.op = "makeMoveSAN"
  /\ last.san = <<"e", "5">>
  /\ last.move = null
  /\ ~last.ok
  /\ engine = reset

\* C28, a piece text that resolved: "Nc6" with black to move took the black
\* knight from b8.
C28_WitnessResolved ==
  /\ last.op = "makeMoveSAN"
  /\ last.san = <<"N", "c", "6">>
  /\ last.move = Move(57, 42, "", "", FALSE)
  /\ 42 \in engine.knights[BLACK]

\* The colour a castling right belongs to, and its wing.
RightSide(right) == IF right \in {"K", "Q"} THEN WHITE ELSE BLACK

RightWing(right) == IF right \in {"K", "k"} THEN "K" ELSE "Q"

\* C29: in every state reached from the initial position by makeMove calls
\* that each move a piece of the side to move to a square not occupied by that
\* side, a held castling right implies that the colour's king is on its start
\* square (e1 or e8) and its rook on the right's home corner (h1 for K, a1 for
\* Q, h8 for k, a8 for q).
C29_RightsImplyHomeSquares ==
  \A right \in Rights(engine) :
    /\ KingStart(RightSide(right)) \in engine.kings[RightSide(right)]
    /\ RookCorner(RightSide(right), RightWing(right)) \in engine.rooks[RightSide(right)]

\* The state the code reaches after e2-e4, e7-e5, Ke1-e2: the white king
\* stands on e2 and white still holds both rights.
C29_KingAwayRightsHeld ==
  /\ plies = 3
  /\ last.op = "makeMove"
  /\ last.move = Move(4, 12, "", "", FALSE)
  /\ engine.kings[WHITE] = {12}
  /\ {"K", "Q"} \subseteq Rights(engine)

\* The halfmove field of a FEN text: its fifth field.
HalfmoveField(fen) == splitBlanks(trim(fen))[5]

C30_WitnessPromotion ==
  /\ last.op = "makeMoveSAN"
  /\ last.san = <<"b", "8", "=", "Q">>
  /\ last.ok
  /\ 57 \in engine.queens[WHITE]
  /\ engine.halfmove = 5

====
